---- MODULE Spec2Model ----
(***************************************************************************)
(* Normalization and aggregation engine of the AI grading front end:       *)
(* pick / toNum / toStr (src/lib/grading.ts), normalizeGradeResponse and   *)
(* normalizeBatchResponse (src/App.tsx), recomputeOverallManual            *)
(* (SingleGradingCard.tsx), recomputeOverallManualForItem and              *)
(* recomputeBatchSummary (BatchGradingCard.tsx).                           *)
(*                                                                         *)
(* Representation.  A JavaScript value is a record [t, v]: t is its kind.  *)
(*   "num"   a finite number; v is the number in hundredths (1.5 is 150)   *)
(*   "nan"   NaN (typeof "number", not finite)                             *)
(*   "str"   a string; v is the sequence of its characters                 *)
(*   "bool", "null", "undef"                                               *)
(*   "obj"   an object; v is the sequence of its <<key, value>> pairs in   *)
(*           the object's own key order                                    *)
(*   "arr"   an array; v is the sequence of its elements                   *)
(* Arithmetic on numbers is exact (no binary rounding, no overflow).       *)
(***************************************************************************)
EXTENDS Integers, Sequences, FiniteSets, TLC

VARIABLES
    call, ret,
    activeTab, questionFile, studentFile, grading, gradeError, result, inflight,
    reviewMode, isEditingRef, editedOverallComment, editedRubricScores,
    batchQuestionFile, batchZipFile, batchStudentFiles, batchPassThreshold,
    batchGrading, batchError, batchResult, summaryRecomputed, batchInflight,
    expandedId, editingItemId, reviewRow, editedFeedback, batchEditedRubricScores, isEditingBatchRef

----------------------------------------------------------------------------
(* JavaScript values *)

Num(n) == [t |-> "num", v |-> n]
NaN == [t |-> "nan", v |-> 0]
Str(s) == [t |-> "str", v |-> s]
Bool(b) == [t |-> "bool", v |-> b]
Null == [t |-> "null", v |-> 0]
Undef == [t |-> "undef", v |-> 0]
Obj(kv) == [t |-> "obj", v |-> kv]
Arr(xs) == [t |-> "arr", v |-> xs]

\* typeof x === "object" (null included, as in JavaScript)
IsObjectType(x) == x.t \in {"obj", "arr", "null"}
\* x is an object that is not an array
IsObj(x) == x.t = "obj"
\* typeof x === "number"
IsNumberType(x) == x.t \in {"num", "nan"}
\* Number.isFinite(x)
IsFinite(x) == x.t = "num"
\* Array.isArray(x)
IsArray(x) == x.t = "arr"

\* k in o, for an object o; an array has none of the keys read here
Has(o, k) == IsObj(o) /\ \E i \in DOMAIN o.v : o.v[i][1] = k
\* o[k]: undefined when k is no key of o
Get(o, k) == IF Has(o, k) THEN o.v[CHOOSE i \in DOMAIN o.v : o.v[i][1] = k][2] ELSE Undef
\* x.k for any value that is not null or undefined (a primitive has no such field)
Prop(x, k) == Get(x, k)
\* `k in x` raises a TypeError: x is a primitive, null or undefined
InRaises(x) == x.t \notin {"obj", "arr"}

\* Boolean(x)
Truthy(x) ==
    CASE x.t = "num" -> x.v # 0
      [] x.t = "nan" -> FALSE
      [] x.t = "str" -> x.v # <<>>
      [] x.t = "bool" -> x.v
      [] x.t \in {"null", "undef"} -> FALSE
      [] OTHER -> TRUE

\* a ?? b
Nullish(a, b) == IF a.t \in {"null", "undef"} THEN b ELSE a

----------------------------------------------------------------------------
(* Strings and numbers *)

Digits == <<"0", "1", "2", "3", "4", "5", "6", "7", "8", "9">>
IsDigit(c) == \E d \in DOMAIN Digits : Digits[d] = c
DigitVal(c) == (CHOOSE d \in DOMAIN Digits : Digits[d] = c) - 1

RECURSIVE TrimLeft(_)
TrimLeft(s) == IF s # <<>> /\ Head(s) = " " THEN TrimLeft(Tail(s)) ELSE s

RECURSIVE TrimRight(_)
TrimRight(s) ==
    IF s # <<>> /\ s[Len(s)] = " " THEN TrimRight(SubSeq(s, 1, Len(s) - 1)) ELSE s

\* String.prototype.trim
Trim(s) == TrimRight(TrimLeft(s))

RECURSIVE DigitsValue(_)
\* the natural number a sequence of digits denotes
DigitsValue(s) ==
    IF s = <<>> THEN 0 ELSE 10 * DigitsValue(SubSeq(s, 1, Len(s) - 1)) + DigitVal(s[Len(s)])

AllDigits(s) == \A i \in DOMAIN s : IsDigit(s[i])

\* the value (in hundredths) of the decimal literal intPart.fracPart with the
\* given sign: digits on at least one side of the point, two decimals at most
DecimalValue(sign, intPart, fracPart) ==
    IF /\ AllDigits(intPart) /\ AllDigits(fracPart)
       /\ Len(intPart) + Len(fracPart) > 0
       /\ Len(fracPart) <= 2
    THEN Num(sign * (100 * DigitsValue(intPart)
                     + DigitsValue(fracPart \o SubSeq(<<"0", "0">>, 1, 2 - Len(fracPart)))))
    ELSE NaN

\* the position of the first decimal point of body, just past its end when none
DotIndex(body) ==
    IF \E i \in DOMAIN body : body[i] = "."
    THEN CHOOSE i \in DOMAIN body : body[i] = "." /\ \A j \in 1..(i - 1) : body[j] # "."
    ELSE Len(body) + 1

\* the literal without its sign, split at the first point (a second point is
\* left in the fraction, which is then not all digits)
UnsignedValue(sign, body, dot) ==
    DecimalValue(sign, SubSeq(body, 1, dot - 1), SubSeq(body, dot + 1, Len(body)))

\* Number(text) for a string: blank is 0, a decimal literal [+-]digits[.digits]
\* with at most two decimals is its value, anything else is NaN
TrimmedToNumber(t) ==
    IF t = <<>> THEN Num(0)
    ELSE UnsignedValue(IF Head(t) = "-" THEN -1 ELSE 1,
                       IF Head(t) \in {"-", "+"} THEN Tail(t) ELSE t,
                       DotIndex(IF Head(t) \in {"-", "+"} THEN Tail(t) ELSE t))

StringToNumber(s) == TrimmedToNumber(Trim(s))

RECURSIVE NatToString(_)
NatToString(n) ==
    IF n < 10 THEN <<Digits[n + 1]>> ELSE NatToString(n \div 10) \o <<Digits[(n % 10) + 1]>>

\* String(n) for a finite number n given in hundredths
NumberToString(c) ==
    LET a == IF c < 0 THEN -c ELSE c
        f == a % 100
        fracStr == IF f = 0 THEN <<>>
                   ELSE IF f % 10 = 0 THEN <<".", Digits[(f \div 10) + 1]>>
                   ELSE <<".", Digits[(f \div 10) + 1], Digits[(f % 10) + 1]>>
    IN  (IF c < 0 THEN <<"-">> ELSE <<>>) \o NatToString(a \div 100) \o fracStr

\* Number(x) for a primitive
PrimitiveToNumber(x) ==
    CASE x.t = "num" -> x
      [] x.t = "str" -> StringToNumber(x.v)
      [] x.t = "bool" -> IF x.v THEN Num(100) ELSE Num(0)
      [] x.t = "null" -> Num(0)
      [] OTHER -> NaN

\* the primitive Number() converts in place of an array or an object: [] goes
\* as "", [e] as e when e is a number or a string and as "" when e is null or
\* undefined; every other array or object used here goes as NaN
ToPrimitive(x) ==
    CASE x.t = "arr" /\ x.v = <<>> -> Str(<<>>)
      [] x.t = "arr" /\ Len(x.v) = 1 /\ x.v[1].t \in {"num", "str"} -> x.v[1]
      [] x.t = "arr" /\ Len(x.v) = 1 /\ x.v[1].t \in {"null", "undef"} -> Str(<<>>)
      [] x.t \in {"arr", "obj"} -> NaN
      [] OTHER -> x

\* Number(x)
ToNumber(x) == PrimitiveToNumber(ToPrimitive(x))

----------------------------------------------------------------------------
(* src/lib/grading.ts *)

\* a faulty variant of pick: a truthiness test in place of the presence test
RECURSIVE pickTruthy(_, _)
pickTruthy(o, keys) ==
    IF keys = <<>> THEN Undef
    ELSE IF Has(o, Head(keys)) /\ Truthy(Get(o, Head(keys))) THEN Get(o, Head(keys))
    ELSE pickTruthy(o, Tail(keys))

RECURSIVE pick(_, _)
\* for (const k of keys) if (k in o) return o[k]; return undefined;
pick(o, keys) ==
    IF keys = <<>> THEN Undef
    ELSE IF Has(o, Head(keys)) THEN Get(o, Head(keys))
    ELSE pick(o, Tail(keys))

\* Number.isFinite(n) ? n : def
FiniteOr(n, def) == IF IsFinite(n) THEN n ELSE def

\* const n = Number(v); return Number.isFinite(n) ? n : def;
toNum(v, def) == FiniteOr(ToNumber(v), def)

\* string as is, number or boolean through String(), anything else undefined
toStr(v) ==
    CASE v.t = "str" -> v
      [] v.t = "num" -> Str(NumberToString(v.v))
      [] v.t = "nan" -> Str(<<"N", "a", "N">>)
      [] v.t = "bool" -> Str(IF v.v THEN <<"t", "r", "u", "e">> ELSE <<"f", "a", "l", "s", "e">>)
      [] OTHER -> Undef

----------------------------------------------------------------------------
(* src/App.tsx: normalizeGradeResponse *)

\* what a call returns when it raises a TypeError instead of returning
Threw == [t |-> "throw", v |-> 0]

NameAliases == <<"criterion", "item", "name", "title", "dimension", "aspect", "label">>
WeightAliases == <<"weight", "w", "weighting">>
ScoreAliases == <<"score", "points", "value">>
CommentAliases == <<"comment", "feedback", "reason", "explanation", "notes">>

\* toStr(x)?.trim() ?? ""
TrimOrEmpty(text) == IF text.t = "str" THEN Trim(text.v) ELSE <<>>
TrimmedText(x) == TrimOrEmpty(toStr(x))

\* (userRubricNames[idx] ?? "").trim(), idx counted from 0
UserName(userRubricNames, idx) ==
    IF idx + 1 \in DOMAIN userRubricNames THEN Trim(userRubricNames[idx + 1]) ELSE <<>>

\* the loop over Object.entries(it): the first string-typed value whose key is
\* not "comment", trimmed; "" when there is none
FallbackName(it) ==
    LET vals == IF IsArray(it) THEN it.v
                ELSE [i \in DOMAIN it.v |-> IF it.v[i][1] = "comment" THEN Null ELSE it.v[i][2]]
        hits == {i \in DOMAIN vals : vals[i].t = "str"}
    IN  IF hits = {} THEN <<>>
        ELSE Trim(vals[CHOOSE i \in hits : \A j \in hits : i <= j].v)

\* `Item ${idx + 1}`
ItemLabel(idx) == <<"I", "t", "e", "m", " ">> \o NatToString(idx + 1)

\* fromBackend || fromUser || fallback || label.  The code computes fallback
\* only when fromBackend and fromUser are both empty, the one case that uses it.
FirstNonEmpty(fromBackend, fromUser, fallback, label) ==
    IF fromBackend # <<>> THEN fromBackend
    ELSE IF fromUser # <<>> THEN fromUser
    ELSE IF fallback # <<>> THEN fallback
    ELSE label

\* a faulty variant of resolveCriterion: the reviewer's name before the backend's
resolveCriterionUserFirst(it, idx, userRubricNames) ==
    FirstNonEmpty(UserName(userRubricNames, idx), TrimmedText(pick(it, NameAliases)),
                  FallbackName(it), ItemLabel(idx))

\* criterion = fromBackend || fromUser || fallback || `Item ${idx + 1}`
resolveCriterion(it, idx, userRubricNames) ==
    FirstNonEmpty(TrimmedText(pick(it, NameAliases)), UserName(userRubricNames, idx),
                  FallbackName(it), ItemLabel(idx))

\* if (present) { const w = ...; if (Number.isFinite(w)) weight = w; }
OverrideWeight(weight, present, w) == IF present /\ IsFinite(w) THEN w ELSE weight

\* a faulty variant of resolveWeight: the map entry is adopted without the finite test
resolveWeightUnchecked(it, criterion, weightsUsedMap) ==
    IF IsObj(weightsUsedMap) /\ Has(weightsUsedMap, criterion)
    THEN toNum(Get(weightsUsedMap, criterion), Num(0))
    ELSE toNum(pick(it, WeightAliases), Num(100))

\* let weight = toNum(pick(it, [...]), 1);
\* if (weightsUsedMap && criterion in weightsUsedMap) {
\*   const w = toNum(weightsUsedMap[criterion], NaN); if (Number.isFinite(w)) weight = w; }
resolveWeight(it, criterion, weightsUsedMap) ==
    OverrideWeight(toNum(pick(it, WeightAliases), Num(100)),
                   IsObj(weightsUsedMap) /\ Has(weightsUsedMap, criterion),
                   toNum(Prop(weightsUsedMap, criterion), NaN))

\* toStr(x) ?? ""
OrEmpty(text) == IF text.t = "str" THEN text ELSE Str(<<>>)
TextOrEmpty(x) == OrEmpty(toStr(x))

\* return { criterion, score: toNum(pick(it, [...]), 0), weight, comment: ... }
CanonicalItem(it, criterion, weightsUsedMap) ==
    Obj(<< <<"criterion", Str(criterion)>>,
           <<"score", toNum(pick(it, ScoreAliases), Num(0))>>,
           <<"weight", resolveWeight(it, criterion, weightsUsedMap)>>,
           <<"comment", TextOrEmpty(pick(it, CommentAliases))>> >>)

\* normItem of normalizeGradeResponse.  `k in it` raises a TypeError when `it`
\* is not an object (null, undefined, a string, a number, a boolean).
normItem(it, idx, userRubricNames, weightsUsedMap) ==
    IF InRaises(it) THEN Threw
    ELSE CanonicalItem(it, resolveCriterion(it, idx, userRubricNames), weightsUsedMap)

\* raw.weights_used && typeof raw.weights_used === "object" ? raw.weights_used : undefined
WeightsUsedMapOf(raw) ==
    IF Truthy(Get(raw, "weights_used")) /\ IsObjectType(Get(raw, "weights_used"))
    THEN Get(raw, "weights_used")
    ELSE Undef

\* the first of rubric_scores, rubric, details that is an array, else []
ItemsSrc(raw) ==
    IF IsArray(Get(raw, "rubric_scores")) THEN Get(raw, "rubric_scores").v
    ELSE IF IsArray(Get(raw, "rubric")) THEN Get(raw, "rubric").v
    ELSE IF IsArray(Get(raw, "details")) THEN Get(raw, "details").v
    ELSE <<>>

\* typeof x === "number" ? x : undefined
NumberOrUndef(x) == IF IsNumberType(x) THEN x ELSE Undef

OverallCommentAliases == <<"feedback", "overall_comment", "summary", "comment">>
ReferenceAliases == <<"reference_answer", "reference", "ref_answer">>

\* itemsSrc.map((it, idx) => normItem(it, idx))
NormItems(itemsSrc, userRubricNames, weightsUsedMap) ==
    [i \in DOMAIN itemsSrc |-> normItem(itemsSrc[i], i - 1, userRubricNames, weightsUsedMap)]

\* the object normalizeGradeResponse returns, Threw when normItem raised
GradeResponseOf(raw, items) ==
    IF \E i \in DOMAIN items : items[i] = Threw THEN Threw
    ELSE Obj(<<
        <<"overall_score",
          toNum(Nullish(Nullish(Get(raw, "overall_score"), Get(raw, "total_score")),
                        Get(raw, "score")), Num(0))>>,
        <<"overall_comment", TextOrEmpty(pick(raw, OverallCommentAliases))>>,
        <<"rubric_scores", Arr(items)>>,
        <<"reference_answer", toStr(pick(raw, ReferenceAliases))>>,
        <<"reference_answer_generated",
          Bool(Truthy(Nullish(Get(raw, "reference_answer_generated"),
                              Get(raw, "generated_reference"))))>>,
        <<"weighted_overall", NumberOrUndef(Get(raw, "weighted_overall"))>>,
        <<"weights_used", WeightsUsedMapOf(raw)>> >>)

\* normalizeGradeResponse(raw, userRubricNames): the canonical GradeResponse,
\* or Threw when normItem raises on an element of the rubric array
normalizeGradeResponse(raw, userRubricNames) ==
    GradeResponseOf(raw, NormItems(ItemsSrc(raw), userRubricNames, WeightsUsedMapOf(raw)))

----------------------------------------------------------------------------
(* src/App.tsx: normalizeBatchResponse *)

\* normRubricItem of normalizeBatchResponse: the same steps as normItem, with
\* the batch's global weights_used map
normRubricItem(it, idx, userRubricNames, weightsUsedMapGlobal) ==
    IF InRaises(it) THEN Threw
    ELSE CanonicalItem(it, resolveCriterion(it, idx, userRubricNames), weightsUsedMapGlobal)

ItemFeedbackAliases == <<"feedback", "overall_comment", "comment">>

\* Array.isArray(r.rubric_scores) ? r.rubric_scores.map(normRubricItem) : undefined
BatchRubricScores(src, userRubricNames, weightsUsedMapGlobal) ==
    IF IsArray(src)
    THEN Arr([i \in DOMAIN src.v |->
                normRubricItem(src.v[i], i - 1, userRubricNames, weightsUsedMapGlobal)])
    ELSE Undef

\* the resultItem built from r = it.result, Threw when normRubricItem raised
BatchResultOf(r, rubricScores) ==
    IF IsArray(rubricScores) /\ \E i \in DOMAIN rubricScores.v : rubricScores.v[i] = Threw
    THEN Threw
    ELSE Obj(<< <<"overall_score", toNum(Get(r, "overall_score"), Num(0))>>,
                <<"weighted_overall", NumberOrUndef(Get(r, "weighted_overall"))>>,
                <<"feedback", TextOrEmpty(pick(r, ItemFeedbackAliases))>>,
                <<"rubric_scores", rubricScores>> >>)

\* the result of one batch item: null unless ok && it.result &&
\* typeof it.result === "object"
batchResultItem(it, ok, userRubricNames, weightsUsedMapGlobal) ==
    IF ~(ok /\ Truthy(Prop(it, "result")) /\ IsObjectType(Prop(it, "result"))) THEN Null
    ELSE BatchResultOf(Prop(it, "result"),
                       BatchRubricScores(Get(Prop(it, "result"), "rubric_scores"),
                                         userRubricNames, weightsUsedMapGlobal))

\* !ok && errorText ? errorText : undefined
ErrorTextOf(ok, text) == IF ~ok /\ Truthy(text) THEN text ELSE Undef

\* { id, file, ok, result: resultItem, error: errorText ?? null }
BatchItemOf(it, ok, resultItem) ==
    IF resultItem = Threw THEN Threw
    ELSE Obj(<< <<"id", TextOrEmpty(Prop(it, "id"))>>,
                <<"file", TextOrEmpty(Prop(it, "file"))>>,
                <<"ok", Bool(ok)>>,
                <<"result", resultItem>>,
                <<"error", Nullish(ErrorTextOf(ok, toStr(Prop(it, "error"))), Null)>> >>)

\* one element of rawItems.map(...): reading it.id raises a TypeError when the
\* element is null (a string or a number has no such field: undefined)
batchItem(it, userRubricNames, weightsUsedMapGlobal) ==
    IF it.t \in {"null", "undef"} THEN Threw
    ELSE BatchItemOf(it, Truthy(Prop(it, "ok")),
                     batchResultItem(it, Truthy(Prop(it, "ok")),
                                     userRubricNames, weightsUsedMapGlobal))

\* pass_rate: toNum(summaryLoose.pass_rate, 0) * 100
passRateOf(summaryLoose) == Num(toNum(Get(summaryLoose, "pass_rate"), Num(0)).v * 100)

\* the summary of normalizeBatchResponse: undefined unless raw.summary is an object
batchSummary(raw) ==
    LET summaryLoose == Get(raw, "summary")
    IN  IF ~(Truthy(summaryLoose) /\ IsObjectType(summaryLoose)) THEN Undef
        ELSE Obj(<< <<"avg", toNum(Get(summaryLoose, "avg"), Num(0))>>,
                    <<"min", toNum(Get(summaryLoose, "min"), Num(0))>>,
                    <<"max", toNum(Get(summaryLoose, "max"), Num(0))>>,
                    <<"stdev", toNum(Get(summaryLoose, "stdev"), Num(0))>>,
                    <<"pass_rate", passRateOf(summaryLoose)>> >>)

\* raw.rubric_used.map((x) => toStr(x)).filter(Boolean), [] when no array
rubricUsedOf(raw) ==
    IF IsArray(Get(raw, "rubric_used"))
    THEN Arr(SelectSeq([i \in DOMAIN Get(raw, "rubric_used").v |-> toStr(Get(raw, "rubric_used").v[i])],
                       Truthy))
    ELSE Arr(<<>>)

\* report_files: { txt, csv } when raw.report_files is an object
reportFilesOf(raw) ==
    IF Truthy(Get(raw, "report_files")) /\ IsObjectType(Get(raw, "report_files"))
    THEN Obj(<< <<"txt", toStr(Get(Get(raw, "report_files"), "txt"))>>,
                <<"csv", toStr(Get(Get(raw, "report_files"), "csv"))>> >>)
    ELSE Undef

\* Array.isArray(raw.items) ? raw.items : []
RawItemsOf(raw) == IF IsArray(Get(raw, "items")) THEN Get(raw, "items").v ELSE <<>>

\* rawItems.map((it) => ...)
BatchItems(rawItems, userRubricNames, weightsUsedMapGlobal) ==
    [i \in DOMAIN rawItems |-> batchItem(rawItems[i], userRubricNames, weightsUsedMapGlobal)]

\* the object normalizeBatchResponse returns, Threw when the mapping raised
BatchResponseOf(raw, rawItems, items) ==
    IF \E i \in DOMAIN items : items[i] = Threw THEN Threw
    ELSE Obj(<<
        <<"count", toNum(Get(raw, "count"), Num(100 * Len(rawItems)))>>,
        <<"success_count", toNum(Get(raw, "success_count"), Num(0))>>,
        <<"fail_count", toNum(Get(raw, "fail_count"), Num(0))>>,
        <<"rubric_used", rubricUsedOf(raw)>>,
        <<"weights_used", WeightsUsedMapOf(raw)>>,
        <<"reference_answer", TextOrEmpty(Get(raw, "reference_answer"))>>,
        <<"reference_answer_generated", Bool(Truthy(Get(raw, "reference_answer_generated")))>>,
        <<"items", Arr(items)>>,
        <<"summary", batchSummary(raw)>>,
        <<"report_files", reportFilesOf(raw)>> >>)

\* normalizeBatchResponse(raw, userRubricNames): the canonical
\* BatchGradeResponse, or Threw when an element of the mapping raises
normalizeBatchResponse(raw, userRubricNames) ==
    BatchResponseOf(raw, RawItemsOf(raw),
                    BatchItems(RawItemsOf(raw), userRubricNames, WeightsUsedMapOf(raw)))

----------------------------------------------------------------------------
(* src/components/SingleGradingCard.tsx, BatchGradingCard.tsx: the recompute *)

\* Math.round(p / q) for integers p and q > 0: the nearest integer, a tie
\* going towards +Infinity
MathRound(p, q) == (2 * p + q) \div (2 * q)

\* !!weightsUsed && Object.keys(weightsUsed).length > 0
UseWeights(weightsUsed) == IsObj(weightsUsed) /\ weightsUsed.v # <<>>

\* const rawW = useWeights ? Number(weightsUsed![s.criterion] ?? 1) : 1;
\* const w = Number.isFinite(rawW) && rawW > 0 ? rawW : 1;      (in hundredths)
EffectiveWeight(s, weightsUsed) ==
    LET rawW == IF UseWeights(weightsUsed)
                THEN ToNumber(Nullish(Get(weightsUsed, Get(s, "criterion").v), Num(100)))
                ELSE Num(100)
    IN  IF IsFinite(rawW) /\ rawW.v > 0 THEN rawW.v ELSE 100

\* const score = Number.isFinite(s.score) ? s.score : 0;        (in hundredths)
FiniteScore(s) == IF IsFinite(Get(s, "score")) THEN Get(s, "score").v ELSE 0

RECURSIVE SumW(_, _)
\* sumW after the loop
SumW(scores, weightsUsed) ==
    IF scores = <<>> THEN 0
    ELSE EffectiveWeight(Head(scores), weightsUsed) + SumW(Tail(scores), weightsUsed)

RECURSIVE SumScoreW(_, _)
\* sumScoreW after the loop (in ten-thousandths)
SumScoreW(scores, weightsUsed) ==
    IF scores = <<>> THEN 0
    ELSE FiniteScore(Head(scores)) * EffectiveWeight(Head(scores), weightsUsed)
            + SumScoreW(Tail(scores), weightsUsed)

RECURSIVE MaxOf(_)
\* Math.max(...xs) for a non-empty sequence of integers
MaxOf(xs) ==
    IF Len(xs) = 1 THEN xs[1]
    ELSE IF xs[1] >= MaxOf(Tail(xs)) THEN xs[1] ELSE MaxOf(Tail(xs))

RECURSIVE MinOf(_)
\* Math.min(...xs) for a non-empty sequence of integers
MinOf(xs) ==
    IF Len(xs) = 1 THEN xs[1]
    ELSE IF xs[1] <= MinOf(Tail(xs)) THEN xs[1] ELSE MinOf(Tail(xs))

\* a faulty variant of ScaleOf: the comparison made strict
ScaleOfStrict(scores) ==
    IF MaxOf([i \in DOMAIN scores |-> FiniteScore(scores[i])]) < 100 THEN 100 ELSE 1

\* const maxScore = Math.max(...scores.map(...)); const scale = maxScore <= 1 ? 100 : 1;
ScaleOf(scores) ==
    IF MaxOf([i \in DOMAIN scores |-> FiniteScore(scores[i])]) <= 100 THEN 100 ELSE 1

\* recomputeOverallManual: Math.round(avg * scale * 10) / 10, returned in hundredths
recomputeOverallManual(scores, weightsUsed) ==
    IF scores = <<>> THEN Num(0)
    ELSE IF SumW(scores, weightsUsed) = 0 THEN Num(0)
    ELSE Num(10 * MathRound(SumScoreW(scores, weightsUsed) * ScaleOf(scores),
                            10 * SumW(scores, weightsUsed)))

\* recomputeOverallManualForItem: the same computation in the batch card
recomputeOverallManualForItem(scores, weightsUsed) ==
    IF scores = <<>> THEN Num(0)
    ELSE IF SumW(scores, weightsUsed) = 0 THEN Num(0)
    ELSE Num(10 * MathRound(SumScoreW(scores, weightsUsed) * ScaleOf(scores),
                            10 * SumW(scores, weightsUsed)))

----------------------------------------------------------------------------
(* src/components/BatchGradingCard.tsx: recomputeBatchSummary *)

\* it.ok && it.result && typeof it.result.overall_score === "number"
Qualifies(it) ==
    /\ Truthy(Get(it, "ok"))
    /\ Truthy(Get(it, "result"))
    /\ IsNumberType(Get(Get(it, "result"), "overall_score"))

\* scores: the overall_score of every qualifying item, in order
qualifyingScores(items) ==
    LET q == SelectSeq(items, Qualifies)
    IN  [i \in DOMAIN q |-> Get(Get(q[i], "result"), "overall_score")]

RECURSIVE SumSeq(_)
\* xs.reduce((a, b) => a + b, 0)
SumSeq(xs) == IF xs = <<>> THEN 0 ELSE Head(xs) + SumSeq(Tail(xs))

\* Math.round(stdev * 10) for the population standard deviation of xs (in
\* hundredths): stdev * 10 is sqrt(D) / (10 n) with D = n * SUM x^2 - (SUM x)^2,
\* and t <= sqrt(D) / (10 n) + 1/2 exactly when t = 0 or ((2t - 1) * 5n)^2 <= D
StdevTenths(xs) ==
    LET n == Len(xs)
        D == n * SumSeq([i \in DOMAIN xs |-> xs[i] * xs[i]]) - SumSeq(xs) * SumSeq(xs)
        AtMost(t) == t <= 0 \/ ((2 * t - 1) * 5 * n) * ((2 * t - 1) * 5 * n) <= D
    IN  CHOOSE t \in 0..((MaxOf(xs) - MinOf(xs)) \div 10 + 1) : AtMost(t) /\ ~AtMost(t + 1)

\* a faulty variant of passCountOf: the comparison made strict
passCountStrict(xs, threshold) == Cardinality({i \in DOMAIN xs : xs[i] > threshold})

\* scores.filter((s) => s >= threshold).length
passCountOf(xs, threshold) == Cardinality({i \in DOMAIN xs : xs[i] >= threshold})

\* const th = Number(passThreshold); Number.isFinite(th) ? th : 60   (in hundredths)
thresholdOf(passThreshold) ==
    IF IsFinite(StringToNumber(passThreshold)) THEN StringToNumber(passThreshold).v ELSE 6000

\* recomputeBatchSummary(items, passThreshold).  A NaN among the scores (typeof
\* "number") makes avg, min, max and stdev NaN and never passes the threshold.
recomputeBatchSummary(items, passThreshold) ==
    LET scores == qualifyingScores(items)
        n == Len(scores)
        finite == SelectSeq(scores, IsFinite)
        xs == [i \in DOMAIN finite |-> finite[i].v]
        passRate == Num(10 * MathRound(1000 * passCountOf(xs, thresholdOf(passThreshold)), n))
    IN  IF scores = <<>>
        THEN Obj(<< <<"avg", Num(0)>>, <<"min", Num(0)>>, <<"max", Num(0)>>,
                    <<"stdev", Num(0)>>, <<"pass_rate", Num(0)>> >>)
        ELSE IF Len(finite) < n
        THEN Obj(<< <<"avg", NaN>>, <<"min", NaN>>, <<"max", NaN>>,
                    <<"stdev", NaN>>, <<"pass_rate", passRate>> >>)
        ELSE Obj(<< <<"avg", Num(10 * MathRound(SumSeq(xs), 10 * n))>>,
                    <<"min", Num(MinOf(xs))>>,
                    <<"max", Num(MaxOf(xs))>>,
                    <<"stdev", Num(10 * StdevTenths(xs))>>,
                    <<"pass_rate", passRate>> >>)

----------------------------------------------------------------------------
(* src/lib/grading.ts: downloadJson, and reading the exported text back *)

RECURSIVE JsonRoundTrip(_)
\* JSON.parse(JSON.stringify(x)): a property whose value is undefined is left
\* out, an undefined array element and NaN become null
JsonRoundTrip(x) ==
    CASE x.t = "obj" ->
            LET kept == SelectSeq(x.v, LAMBDA p : p[2].t # "undef")
            IN  Obj([i \in DOMAIN kept |-> <<kept[i][1], JsonRoundTrip(kept[i][2])>>])
      [] x.t = "arr" ->
            Arr([i \in DOMAIN x.v |-> IF x.v[i].t = "undef" THEN Null ELSE JsonRoundTrip(x.v[i])])
      [] x.t = "nan" -> Null
      [] OTHER -> x

----------------------------------------------------------------------------
(* src/App.tsx and src/components/SingleGradingCard.tsx: single grading.     *)
(* activeTab, questionFile, studentFile, grading, gradeError and result are  *)
(* state of AIFeedbackFrontend; reviewMode, isEditingRef,                    *)
(* editedOverallComment and editedRubricScores are state of the mounted      *)
(* SingleGradingCard; inflight is the set of grading requests awaiting their *)
(* response, each with the reviewer's rubric names its handler captured.     *)

callVars == <<call, ret>>

singleVars ==
    <<activeTab, questionFile, studentFile, grading, gradeError, result, inflight,
      reviewMode, isEditingRef, editedOverallComment, editedRubricScores>>

\* state of AIFeedbackFrontend for batch grading
\* summaryRecomputed is a history variable, no state of the program: the held
\* batch snapshot's summary was written by applyReviewForItem
batchAppVars ==
    <<batchQuestionFile, batchZipFile, batchStudentFiles, batchPassThreshold,
      batchGrading, batchError, batchResult, summaryRecomputed, batchInflight>>

\* state of the mounted BatchGradingCard; batchEditedRubricScores is the
\* card's editedRubricScores.  reviewRow is a history variable, no state of
\* the card: the row whose Review button began the open review, 0 when none
batchCardVars ==
    <<expandedId, editingItemId, reviewRow, editedFeedback, batchEditedRubricScores, isEditingBatchRef>>

batchVars == <<batchAppVars, batchCardVars>>

vars == <<callVars, singleVars, batchVars>>

\* the useState initial values of BatchGradingCard
InitBatchCard ==
    /\ expandedId = Null
    /\ editingItemId = Null
    /\ reviewRow = 0
    /\ editedFeedback = <<>>
    /\ batchEditedRubricScores = <<>>
    /\ isEditingBatchRef = FALSE

\* the useState initial values of AIFeedbackFrontend for batch grading, and
\* of BatchGradingCard
InitBatchState ==
    /\ batchQuestionFile = FALSE
    /\ batchZipFile = Null
    /\ batchStudentFiles = <<>>
    /\ batchPassThreshold = <<"6", "0", ".", "0">>
    /\ batchGrading = FALSE
    /\ batchError = Null
    /\ batchResult = Null
    /\ summaryRecomputed = FALSE
    /\ batchInflight = {}
    /\ InitBatchCard

\* the useState initial values of AIFeedbackFrontend and of SingleGradingCard
InitSingleState ==
    /\ activeTab = "single"
    /\ questionFile = FALSE
    /\ studentFile = FALSE
    /\ grading = FALSE
    /\ gradeError = Null
    /\ result = Null
    /\ inflight = {}
    /\ reviewMode = FALSE
    /\ isEditingRef = FALSE
    /\ editedOverallComment = <<>>
    /\ editedRubricScores = <<>>

\* { ...o, [k]: x }
SetField(o, k, x) ==
    IF Has(o, k)
    THEN Obj([i \in DOMAIN o.v |-> IF o.v[i][1] = k THEN <<k, x>> ELSE o.v[i]])
    ELSE Obj(Append(o.v, <<k, x>>))

\* result.overall_comment ?? ""
CommentOf(res) == Nullish(Get(res, "overall_comment"), Str(<<>>)).v

\* result.rubric_scores ? [...result.rubric_scores] : []
ScoresOf(res) == IF Truthy(Get(res, "rubric_scores")) THEN Get(res, "rubric_scores").v ELSE <<>>

\* the card's local state after the effect on [result, reviewMode] has run for
\* the result res, the local state being review, editingRef, comment, scores
SyncLocal(res, review, editingRef, comment, scores) ==
    IF res = Null
    THEN [reviewMode |-> FALSE, isEditingRef |-> FALSE,
          editedOverallComment |-> <<>>, editedRubricScores |-> <<>>]
    ELSE IF ~review
    THEN [reviewMode |-> review, isEditingRef |-> editingRef,
          editedOverallComment |-> CommentOf(res), editedRubricScores |-> ScoresOf(res)]
    ELSE [reviewMode |-> review, isEditingRef |-> editingRef,
          editedOverallComment |-> comment, editedRubricScores |-> scores]

\* the render that follows a handler: the card, when mounted, runs its effect
RenderSingle(res, review, editingRef, comment, scores) ==
    LET s == IF activeTab = "single"
             THEN SyncLocal(res, review, editingRef, comment, scores)
             ELSE [reviewMode |-> review, isEditingRef |-> editingRef,
                   editedOverallComment |-> comment, editedRubricScores |-> scores]
    IN  /\ reviewMode' = s.reviewMode
        /\ isEditingRef' = s.isEditingRef
        /\ editedOverallComment' = s.editedOverallComment
        /\ editedRubricScores' = s.editedRubricScores

\* a faulty variant of canSubmitSingle: the grading flag is not consulted
canSubmitSingleWhileGrading == questionFile /\ studentFile

\* !!questionFile && !!studentFile && !grading; the strict-mode conjunct
\* (!useStrict || strictHasRubricSource) is the negation of onSubmitSingle's
\* early return, which therefore never runs from the enabled button
canSubmitSingle == questionFile /\ studentFile /\ ~grading

\* the lists getRubricNamesFromUser can hand to a grading handler
RequestNames == {<<>>, <<<<"R">>>>}

\* the responses of the grading backend
SingleRawPayloads ==
    {Obj(<< <<"overall_score", Num(8000)>>, <<"feedback", Str(<<"f">>)>>,
            <<"rubric_scores", Arr(<< Obj(<< <<"criterion", Str(<<" ", "A", " ">>)>>,
                                             <<"score", Num(50)>>,
                                             <<"weight", Num(200)>>,
                                             <<"comment", Str(<<"c">>)>> >>) >>)>> >>),
     Obj(<< <<"total_score", Str(<<"7", "0">>)>>,
            <<"rubric", Arr(<< Obj(<< <<"name", Str(<<"A">>)>>, <<"points", Num(9000)>> >>) >>)>>,
            <<"weights_used", Obj(<< << <<"A">>, Num(300)>> >>)>>,
            <<"reference_answer", Str(<<"r">>)>>,
            <<"weighted_overall", Num(7000)>> >>),
     Obj(<< <<"rubric_scores", Arr(<<Null>>)>> >>),
     Obj(<<>>)}

\* what the reviewer types into a score field and into a comment field
ScoreTexts == {<<"0", ".", "5">>, <<"a", "b", "c">>}
CommentTexts == {<<"x">>}

TypeErrorMessage == Str(<<"T", "y", "p", "e", "E", "r", "r", "o", "r">>)
HttpErrorMessage == Str(<<"H", "T", "T", "P">>)

\* setActiveTab: leaving a tab unmounts its card (its local state is gone),
\* coming back mounts it afresh; the single card's effect runs at its mount
SetActiveTab ==
    /\ \/ /\ activeTab = "single"
          /\ activeTab' = "batch"
          /\ reviewMode' = FALSE
          /\ isEditingRef' = FALSE
          /\ editedOverallComment' = <<>>
          /\ editedRubricScores' = <<>>
       \/ /\ activeTab = "batch"
          /\ activeTab' = "single"
          /\ LET s == SyncLocal(result, FALSE, FALSE, <<>>, <<>>)
             IN  /\ reviewMode' = s.reviewMode
                 /\ isEditingRef' = s.isEditingRef
                 /\ editedOverallComment' = s.editedOverallComment
                 /\ editedRubricScores' = s.editedRubricScores
    /\ expandedId' = Null
    /\ editingItemId' = Null
    /\ reviewRow' = 0
    /\ editedFeedback' = <<>>
    /\ batchEditedRubricScores' = <<>>
    /\ isEditingBatchRef' = FALSE
    /\ UNCHANGED <<callVars, batchAppVars, questionFile, studentFile, grading, gradeError, result,
                   inflight>>

\* onQuestionFileChange={setQuestionFile}
OnQuestionFileChange ==
    /\ activeTab = "single"
    /\ \E f \in BOOLEAN : f # questionFile /\ questionFile' = f
    /\ UNCHANGED <<callVars, batchVars, activeTab, studentFile, grading, gradeError, result, inflight,
                   reviewMode, isEditingRef, editedOverallComment, editedRubricScores>>

\* onStudentFileChange={setStudentFile}
OnStudentFileChange ==
    /\ activeTab = "single"
    /\ \E f \in BOOLEAN : f # studentFile /\ studentFile' = f
    /\ UNCHANGED <<callVars, batchVars, activeTab, questionFile, grading, gradeError, result, inflight,
                   reviewMode, isEditingRef, editedOverallComment, editedRubricScores>>

\* onSubmitSingle up to its await: setGrading(true); setGradeError(null);
\* setResult(null); the request leaves
OnSubmitSingle ==
    /\ activeTab = "single"
    /\ canSubmitSingle
    /\ grading' = TRUE
    /\ gradeError' = Null
    /\ result' = Null
    /\ \E names \in RequestNames :
          inflight' = inflight \cup {[kind |-> "submit", names |-> names]}
    /\ RenderSingle(Null, reviewMode, isEditingRef, editedOverallComment, editedRubricScores)
    /\ UNCHANGED <<callVars, batchVars, activeTab, questionFile, studentFile>>

\* handleRegradeClick: onRegradeSingleWithRef up to its await (it returns at
\* once when a file is missing), then setIsEditingRef(false)
HandleRegradeClick ==
    /\ activeTab = "single"
    /\ result # Null
    /\ isEditingRef
    /\ ~grading
    /\ IF ~questionFile \/ ~studentFile
       THEN UNCHANGED <<grading, gradeError, inflight>>
       ELSE /\ grading' = TRUE
            /\ gradeError' = Null
            /\ \E names \in RequestNames :
                  inflight' = inflight \cup {[kind |-> "regrade", names |-> names]}
    /\ isEditingRef' = FALSE
    /\ UNCHANGED <<callVars, batchVars, activeTab, questionFile, studentFile, result,
                   reviewMode, editedOverallComment, editedRubricScores>>

\* setResult(normalized), or setGradeError in the catch when normalizing raised
SettleGrade(normalized) ==
    /\ result' = IF normalized = Threw THEN result ELSE normalized
    /\ gradeError' = IF normalized = Threw THEN TypeErrorMessage ELSE gradeError

\* the rest of onSubmitSingle / onRegradeSingleWithRef when the response is ok:
\* setResult(normalizeGradeResponse(raw, userNames)), or setGradeError when
\* the normalization raises; finally setGrading(false); then the effect
GradeResponseOk ==
    /\ \E req \in inflight, raw \in SingleRawPayloads :
          /\ SettleGrade(normalizeGradeResponse(raw, req.names))
          /\ inflight' = inflight \ {req}
    /\ RenderSingle(result', reviewMode, isEditingRef, editedOverallComment, editedRubricScores)
    /\ grading' = FALSE
    /\ UNCHANGED <<callVars, batchVars, activeTab, questionFile, studentFile>>

\* the rest of either handler when the request fails or the response is not
\* ok: setGradeError(msg); finally setGrading(false)
GradeResponseFail ==
    /\ \E req \in inflight : inflight' = inflight \ {req}
    /\ gradeError' = HttpErrorMessage
    /\ grading' = FALSE
    /\ UNCHANGED <<callVars, batchVars, activeTab, questionFile, studentFile, result,
                   reviewMode, isEditingRef, editedOverallComment, editedRubricScores>>

\* onClick={() => setIsEditingRef(!isEditingRef)}, disabled while grading
ToggleEditingRef ==
    /\ activeTab = "single"
    /\ result # Null
    /\ ~grading
    /\ isEditingRef' = ~isEditingRef
    /\ UNCHANGED <<callVars, batchVars, activeTab, questionFile, studentFile, grading, gradeError, result,
                   inflight, reviewMode, editedOverallComment, editedRubricScores>>

\* onClick={() => setReviewMode(!reviewMode)}, then the effect
ToggleReviewMode ==
    /\ activeTab = "single"
    /\ result # Null
    /\ RenderSingle(result, ~reviewMode, isEditingRef, editedOverallComment, editedRubricScores)
    /\ UNCHANGED <<callVars, batchVars, activeTab, questionFile, studentFile, grading, gradeError, result,
                   inflight>>

\* the cell value handleEditRubricScore stores: for a score Number(value), 0
\* when that is not finite; for a comment the text
EditedCell(field, value) ==
    IF field = "score"
    THEN FiniteOr(ToNumber(Str(value)), Num(0))
    ELSE Str(value)

\* a faulty variant of EditedRows: the row is written without being copied,
\* so the held row, when it is the very object in the buffer, changes too
EditedRowsInPlace(held, prev, index, field, x) ==
    [held |-> IF index \in DOMAIN held /\ held[index] = prev[index]
              THEN [held EXCEPT ![index] = SetField(@, field, x)]
              ELSE held,
     buffer |-> [prev EXCEPT ![index] = SetField(@, field, x)]]

\* the statements of handleEditRubricScore on the buffer prev, whose rows are
\* the held result's own row objects until edited: const next = [...prev];
\* const item = { ...next[index] }; item[field] = x; next[index] = item.
\* The array and the row written to are fresh copies: the held rows stay.
EditedRows(held, prev, index, field, x) ==
    [held |-> held,
     buffer |-> [prev EXCEPT ![index] = SetField(@, field, x)]]

\* the held result with the rows `rows` for its criteria
HeldWithRows(res, rows) ==
    IF rows = ScoresOf(res) THEN res ELSE SetField(res, "rubric_scores", Arr(rows))

\* handleEditRubricScore(index, field, value) on a row of the review table
HandleEditRubricScore ==
    /\ activeTab = "single"
    /\ result # Null
    /\ reviewMode
    /\ \E index \in DOMAIN editedRubricScores, field \in {"score", "comment"},
          value \in ScoreTexts \cup CommentTexts :
          /\ value \in (IF field = "score" THEN ScoreTexts ELSE CommentTexts)
          /\ LET e == EditedRows(ScoresOf(result), editedRubricScores, index, field,
                                 EditedCell(field, value))
             IN  /\ editedRubricScores' = e.buffer
                 /\ result' = HeldWithRows(result, e.held)
    /\ UNCHANGED <<callVars, batchVars, activeTab, questionFile, studentFile, grading, gradeError,
                   inflight, reviewMode, isEditingRef, editedOverallComment>>

\* onChange={(e) => setEditedOverallComment(e.target.value)}
EditOverallComment ==
    /\ activeTab = "single"
    /\ result # Null
    /\ reviewMode
    /\ \E value \in CommentTexts : editedOverallComment' = value
    /\ UNCHANGED <<callVars, batchVars, activeTab, questionFile, studentFile, grading, gradeError, result,
                   inflight, reviewMode, isEditingRef, editedRubricScores>>

\* a faulty variant of AppliedResult: weighted_overall is left as it was
AppliedResultScoreOnly(res, comment, scores) ==
    SetField(SetField(SetField(res,
        "overall_score", recomputeOverallManual(scores, Get(res, "weights_used"))),
        "overall_comment", Str(comment)),
        "rubric_scores", Arr(scores))

\* the snapshot applyManualReview hands to onResultChange
AppliedResult(res, comment, scores) ==
    LET newOverall == recomputeOverallManual(scores, Get(res, "weights_used"))
    IN  SetField(SetField(SetField(SetField(res,
            "overall_score", newOverall),
            "weighted_overall", newOverall),
            "overall_comment", Str(comment)),
            "rubric_scores", Arr(scores))

\* applyManualReview, then setResult(updated) and the effect
ApplyManualReview ==
    /\ activeTab = "single"
    /\ result # Null
    /\ reviewMode
    /\ result' = AppliedResult(result, editedOverallComment, editedRubricScores)
    /\ RenderSingle(result', reviewMode, isEditingRef, editedOverallComment, editedRubricScores)
    /\ UNCHANGED <<callVars, batchVars, activeTab, questionFile, studentFile, grading, gradeError, inflight>>

\* cancelManualReview, then the effect
CancelManualReview ==
    /\ activeTab = "single"
    /\ result # Null
    /\ reviewMode
    /\ RenderSingle(result, FALSE, isEditingRef, CommentOf(result), ScoresOf(result))
    /\ UNCHANGED <<callVars, batchVars, activeTab, questionFile, studentFile, grading, gradeError, result,
                   inflight>>

----------------------------------------------------------------------------
(* src/App.tsx and src/components/BatchGradingCard.tsx: batch grading.       *)
(* batchZipFile is null or the chosen file (its name), batchStudentFiles the *)
(* list of the chosen files' names; batchInflight is the set of batch        *)
(* grading requests awaiting their response.                                 *)

\* String.prototype.toLowerCase on one character
LowerChar(c) ==
    CASE c = "Z" -> "z"
      [] c = "I" -> "i"
      [] c = "P" -> "p"
      [] OTHER -> c

\* f.name.toLowerCase().endsWith('.zip')
IsZipName(name) ==
    /\ Len(name) >= 4
    /\ [i \in 1..4 |-> LowerChar(name[Len(name) - 4 + i])] = <<".", "z", "i", "p">>

\* the file lists the student-files input can hand to its onChange
FileSelections ==
    {<<>>,
     << <<"a", ".", "Z", "I", "P">> >>,
     << <<"b", ".", "p", "d", "f">> >>,
     << <<"a", ".", "Z", "I", "P">>, <<"b", ".", "p", "d", "f">> >>}

\* what the reviewer types into the pass-threshold field
ThresholdTexts == {<<>>, <<"6", "0", ".", "0">>}

\* the list getRubricNamesFromUser hands to a batch grading handler
BatchRequestNames == {<< <<"R">> >>}

\* what the reviewer types into a score field of an item's review table
BatchScoreTexts == {<<"0", ".", "5">>}

\* what the reviewer types into an item's feedback field
FeedbackTexts == {<<"y">>}

\* the responses of the batch grading backend
BatchRawPayloads ==
    {Obj(<< <<"items", Arr(<<
                Obj(<< <<"id", Str(<<"1">>)>>, <<"ok", Bool(TRUE)>>,
                       <<"result", Obj(<< <<"overall_score", Num(8000)>>,
                                          <<"feedback", Str(<<"f">>)>>,
                                          <<"rubric_scores", Arr(<<
                                              Obj(<< <<"criterion", Str(<<"A">>)>>,
                                                     <<"score", Num(100)>>,
                                                     <<"weight", Num(200)>> >>) >>)>> >>)>> >>),
                Obj(<< <<"id", Str(<<"2">>)>>, <<"ok", Bool(FALSE)>>,
                       <<"error", Str(<<"e">>)>> >>) >>)>>,
            <<"summary", Obj(<< <<"avg", Num(8000)>>, <<"min", Num(8000)>>,
                                <<"max", Num(8000)>>, <<"stdev", Num(0)>>,
                                <<"pass_rate", Num(100)>> >>)>> >>),
     Obj(<< <<"items", Arr(<<
                Obj(<< <<"id", Str(<<"1">>)>>, <<"ok", Bool(TRUE)>>,
                       <<"result", Obj(<< <<"overall_score", Num(6500)>>,
                                          <<"weighted_overall", Num(7000)>>,
                                          <<"rubric_scores", Arr(<<
                                              Obj(<< <<"name", Str(<<"A">>)>>,
                                                     <<"points", Num(9000)>> >>) >>)>> >>)>> >>),
                Obj(<< <<"id", Str(<<"1">>)>>, <<"ok", Bool(TRUE)>>,
                       <<"result", Obj(<< <<"overall_score", Num(5000)>> >>)>> >>),
                Obj(<< <<"ok", Bool(TRUE)>> >>),
                Obj(<< <<"ok", Bool(TRUE)>>,
                       <<"result", Obj(<< <<"overall_score", Num(4000)>> >>)>> >>) >>)>>,
            <<"weights_used", Obj(<< << <<"A">>, Num(300)>> >>)>> >>),
     Obj(<< <<"items", Arr(<<Null>>)>> >>)}

\* it.id of the row at idx
ItemIdAt(res, idx) == Get(Get(res, "items").v[idx], "id")

\* the rows that show their View Details and Review buttons: {it.result && (
ResultRows(res) ==
    IF res = Null THEN {}
    ELSE {idx \in DOMAIN Get(res, "items").v : Truthy(Get(Get(res, "items").v[idx], "result"))}

\* the rows that show the edit fields and the Cancel / Save Changes buttons:
\* isExpanded && it.result, and isEditing
EditingRows(res, expanded, editing) ==
    {idx \in ResultRows(res) : expanded = ItemIdAt(res, idx) /\ editing = ItemIdAt(res, idx)}

\* result.items.findIndex((it) => it.id === id), 0 for -1
FindIndex(res, id) ==
    LET hits == {idx \in DOMAIN Get(res, "items").v : ItemIdAt(res, idx) = id}
    IN  IF hits = {} THEN 0 ELSE CHOOSE idx \in hits : \A j \in hits : idx <= j

\* !!batchQuestionFile && (!!batchZipFile || batchStudentFiles.length > 0) &&
\* !batchGrading; the strict-mode conjunct is the negation of onSubmitBatch's
\* early return, which therefore never runs from the enabled button
canSubmitBatch ==
    batchQuestionFile /\ (batchZipFile # Null \/ batchStudentFiles # <<>>) /\ ~batchGrading

\* onQuestionFileChange={setBatchQuestionFile}
OnBatchQuestionFileChange ==
    /\ activeTab = "batch"
    /\ \E f \in BOOLEAN : f # batchQuestionFile /\ batchQuestionFile' = f
    /\ UNCHANGED <<callVars, singleVars, batchCardVars, batchZipFile, batchStudentFiles,
                   batchPassThreshold, batchGrading, batchError, batchResult, summaryRecomputed, batchInflight>>

\* a faulty variant of HandleStudentFilesUpload: a ZIP chosen with other files
\* is not rejected, the ZIP is kept and the other files stay in the list
HandleStudentFilesUploadMixed ==
    /\ activeTab = "batch"
    /\ \E fileList \in FileSelections :
          LET zips == SelectSeq(fileList, IsZipName)
          IN  IF fileList = <<>>
              THEN batchZipFile' = Null /\ batchStudentFiles' = <<>>
              ELSE IF zips # <<>>
              THEN /\ batchZipFile' = Str(Head(zips))
                   /\ batchStudentFiles' = SelectSeq(fileList, LAMBDA f : ~IsZipName(f))
              ELSE batchZipFile' = Null /\ batchStudentFiles' = fileList
    /\ UNCHANGED <<callVars, singleVars, batchCardVars, batchQuestionFile,
                   batchPassThreshold, batchGrading, batchError, batchResult, summaryRecomputed, batchInflight>>

\* handleStudentFilesUpload: an empty list clears both; a ZIP chosen with
\* other files is rejected; a ZIP alone is kept and the list emptied; files
\* without a ZIP are kept and the ZIP dropped
HandleStudentFilesUpload ==
    /\ activeTab = "batch"
    /\ \E fileList \in FileSelections :
          LET zips == SelectSeq(fileList, IsZipName)
          IN  IF fileList = <<>>
              THEN batchZipFile' = Null /\ batchStudentFiles' = <<>>
              ELSE IF zips # <<>>
              THEN IF Len(fileList) > 1
                   THEN UNCHANGED <<batchZipFile, batchStudentFiles>>
                   ELSE batchZipFile' = Str(Head(zips)) /\ batchStudentFiles' = <<>>
              ELSE batchZipFile' = Null /\ batchStudentFiles' = fileList
    /\ UNCHANGED <<callVars, singleVars, batchCardVars, batchQuestionFile,
                   batchPassThreshold, batchGrading, batchError, batchResult, summaryRecomputed, batchInflight>>

\* clearSelection, its button shown when a ZIP or a file is chosen
ClearSelection ==
    /\ activeTab = "batch"
    /\ batchZipFile # Null \/ batchStudentFiles # <<>>
    /\ batchZipFile' = Null
    /\ batchStudentFiles' = <<>>
    /\ UNCHANGED <<callVars, singleVars, batchCardVars, batchQuestionFile,
                   batchPassThreshold, batchGrading, batchError, batchResult, summaryRecomputed, batchInflight>>

\* onPassThresholdChange={setBatchPassThreshold}
OnPassThresholdChange ==
    /\ activeTab = "batch"
    /\ \E value \in ThresholdTexts : value # batchPassThreshold /\ batchPassThreshold' = value
    /\ UNCHANGED <<callVars, singleVars, batchCardVars, batchQuestionFile, batchZipFile,
                   batchStudentFiles, batchGrading, batchError, batchResult, summaryRecomputed, batchInflight>>

\* onSubmitBatch up to its await: setBatchGrading(true); setBatchError(null);
\* setBatchResult(null); the request leaves
OnSubmitBatch ==
    /\ activeTab = "batch"
    /\ canSubmitBatch
    /\ batchGrading' = TRUE
    /\ batchError' = Null
    /\ batchResult' = Null
    /\ summaryRecomputed' = FALSE
    /\ \E names \in BatchRequestNames :
          batchInflight' = batchInflight \cup {[kind |-> "submit", names |-> names]}
    /\ UNCHANGED <<callVars, singleVars, batchCardVars, batchQuestionFile, batchZipFile,
                   batchStudentFiles, batchPassThreshold>>

\* onClick={() => setIsEditingBatchRef(!isEditingBatchRef)}, disabled while grading
ToggleEditingBatchRef ==
    /\ activeTab = "batch"
    /\ batchResult # Null
    /\ ~batchGrading
    /\ isEditingBatchRef' = ~isEditingBatchRef
    /\ UNCHANGED <<callVars, singleVars, batchAppVars, expandedId, editingItemId, reviewRow,
                   editedFeedback, batchEditedRubricScores>>

\* handleBatchRegradeClick: onRegradeBatchWithRef up to its await (it returns
\* at once when the question file or the submissions are missing), then
\* setIsEditingBatchRef(false)
HandleBatchRegradeClick ==
    /\ activeTab = "batch"
    /\ batchResult # Null
    /\ isEditingBatchRef
    /\ ~batchGrading
    /\ IF ~batchQuestionFile \/ (batchZipFile = Null /\ batchStudentFiles = <<>>)
       THEN UNCHANGED <<batchGrading, batchError, batchInflight>>
       ELSE /\ batchGrading' = TRUE
            /\ batchError' = Null
            /\ \E names \in BatchRequestNames :
                  batchInflight' = batchInflight \cup {[kind |-> "regrade", names |-> names]}
    /\ isEditingBatchRef' = FALSE
    /\ UNCHANGED <<callVars, singleVars, batchQuestionFile, batchZipFile, batchStudentFiles,
                   batchPassThreshold, batchResult, summaryRecomputed, expandedId, editingItemId, reviewRow,
                   editedFeedback, batchEditedRubricScores>>

\* setBatchResult(normalized), or setBatchError in the catch when normalizing raised
SettleBatch(normalized) ==
    /\ batchResult' = IF normalized = Threw THEN batchResult ELSE normalized
    /\ summaryRecomputed' = IF normalized = Threw THEN summaryRecomputed ELSE FALSE
    /\ batchError' = IF normalized = Threw THEN TypeErrorMessage ELSE batchError

\* the rest of onSubmitBatch / onRegradeBatchWithRef when the response is ok:
\* setBatchResult(normalizeBatchResponse(raw, userNames)), or setBatchError
\* when the normalization raises; finally setBatchGrading(false).  The card
\* has no effect on [result]: its review state stays as it is.
BatchResponseOk ==
    /\ \E req \in batchInflight, raw \in BatchRawPayloads :
          /\ SettleBatch(normalizeBatchResponse(raw, req.names))
          /\ batchInflight' = batchInflight \ {req}
    /\ batchGrading' = FALSE
    /\ UNCHANGED <<callVars, singleVars, batchCardVars, batchQuestionFile, batchZipFile,
                   batchStudentFiles, batchPassThreshold>>

\* the rest of either handler when the request fails or the response is not
\* ok: setBatchError(msg); finally setBatchGrading(false)
BatchResponseFail ==
    /\ \E req \in batchInflight : batchInflight' = batchInflight \ {req}
    /\ batchError' = HttpErrorMessage
    /\ batchGrading' = FALSE
    /\ UNCHANGED <<callVars, singleVars, batchCardVars, batchQuestionFile, batchZipFile,
                   batchStudentFiles, batchPassThreshold, batchResult,
                   summaryRecomputed>>

\* onClick={() => setExpandedId(prev => prev === it.id ? null : it.id)}
ToggleExpanded ==
    /\ activeTab = "batch"
    /\ \E idx \in ResultRows(batchResult) :
          expandedId' = IF expandedId = ItemIdAt(batchResult, idx) THEN Null
                        ELSE ItemIdAt(batchResult, idx)
    /\ UNCHANGED <<callVars, singleVars, batchAppVars, editingItemId, reviewRow, editedFeedback,
                   batchEditedRubricScores, isEditingBatchRef>>

\* item.result.feedback ?? ""
FeedbackOf(res) == Nullish(Get(res, "feedback"), Str(<<>>)).v

\* beginReviewForItem(it.id) from the Review button of a row: the item is the
\* first whose id is it.id; nothing happens when that item has no result
BeginReviewForItem ==
    /\ activeTab = "batch"
    /\ \E row \in ResultRows(batchResult) :
          LET id == ItemIdAt(batchResult, row)
              item == Get(batchResult, "items").v[FindIndex(batchResult, id)]
          IN  IF ~Truthy(Get(item, "result"))
              THEN UNCHANGED <<expandedId, editingItemId, reviewRow, editedFeedback, batchEditedRubricScores>>
              ELSE /\ expandedId' = id
                   /\ editingItemId' = id
                   /\ reviewRow' = row
                   /\ editedFeedback' = FeedbackOf(Get(item, "result"))
                   /\ batchEditedRubricScores' = ScoresOf(Get(item, "result"))
    /\ UNCHANGED <<callVars, singleVars, batchAppVars, isEditingBatchRef>>

\* the rows of the item the review buffer was copied from: the first item
\* whose id is editingItemId
HeldItemRows(res, editing) ==
    IF FindIndex(res, editing) = 0 THEN <<>>
    ELSE ScoresOf(Get(Get(res, "items").v[FindIndex(res, editing)], "result"))

\* the batch result with the rows `rows` for the criteria of that item
BatchWithRows(res, editing, rows) ==
    IF rows = HeldItemRows(res, editing) THEN res
    ELSE SetField(res, "items",
            Arr([Get(res, "items").v EXCEPT ![FindIndex(res, editing)] =
                    SetField(@, "result", SetField(Get(@, "result"), "rubric_scores", Arr(rows)))]))

\* handleEditRubricScore(index, field, value) on a row of an item's review table
BatchHandleEditRubricScore ==
    /\ activeTab = "batch"
    /\ EditingRows(batchResult, expandedId, editingItemId) # {}
    /\ \E index \in DOMAIN batchEditedRubricScores, field \in {"score", "comment"},
          value \in BatchScoreTexts \cup CommentTexts :
          /\ value \in (IF field = "score" THEN BatchScoreTexts ELSE CommentTexts)
          /\ LET e == EditedRows(HeldItemRows(batchResult, editingItemId),
                                 batchEditedRubricScores, index, field, EditedCell(field, value))
             IN  /\ batchEditedRubricScores' = e.buffer
                 /\ batchResult' = BatchWithRows(batchResult, editingItemId, e.held)
    /\ UNCHANGED <<callVars, singleVars, batchQuestionFile, batchZipFile, batchStudentFiles,
                   batchPassThreshold, batchGrading, batchError, batchInflight,
                   summaryRecomputed,
                   expandedId, editingItemId, reviewRow, editedFeedback, isEditingBatchRef>>

\* onChange={(e) => setEditedFeedback(e.target.value)}
EditFeedback ==
    /\ activeTab = "batch"
    /\ EditingRows(batchResult, expandedId, editingItemId) # {}
    /\ \E value \in FeedbackTexts : editedFeedback' = value
    /\ UNCHANGED <<callVars, singleVars, batchAppVars, expandedId, editingItemId, reviewRow,
                   batchEditedRubricScores, isEditingBatchRef>>

\* { ...item, result: { ...item.result, overall_score: newOverall,
\*   weighted_overall: newOverall, feedback, rubric_scores } }
ReviewedItem(item, newOverall, feedback, scores) ==
    SetField(item, "result",
             SetField(SetField(SetField(SetField(Get(item, "result"),
                 "overall_score", newOverall),
                 "weighted_overall", newOverall),
                 "feedback", Str(feedback)),
                 "rubric_scores", Arr(scores)))

\* the snapshot applyReviewForItem hands to onResultChange for the item at idx
ReviewedBatch(res, idx, feedback, scores, passThreshold) ==
    LET newOverall == recomputeOverallManualForItem(scores, Nullish(Get(res, "weights_used"), Undef))
        newItems == [Get(res, "items").v EXCEPT
                        ![idx] = ReviewedItem(@, newOverall, feedback, scores)]
    IN  SetField(SetField(res, "items", Arr(newItems)),
                 "summary", recomputeBatchSummary(newItems, passThreshold))

\* cancelReviewForItem
CancelReviewState ==
    /\ editingItemId' = Null
    /\ reviewRow' = 0
    /\ editedFeedback' = <<>>
    /\ batchEditedRubricScores' = <<>>

\* applyReviewForItem from the Save Changes button: it returns at once when
\* editingItemId is falsy ("" is), when no item has that id, or when the
\* first item with that id has no result; else onResultChange(updated) and
\* cancelReviewForItem()
ApplyReviewForItem ==
    /\ activeTab = "batch"
    /\ EditingRows(batchResult, expandedId, editingItemId) # {}
    /\ LET idx == FindIndex(batchResult, editingItemId)
       IN  IF \/ ~Truthy(editingItemId)
              \/ idx = 0
              \/ ~Truthy(Get(Get(batchResult, "items").v[idx], "result"))
           THEN UNCHANGED <<batchResult, summaryRecomputed, editingItemId, reviewRow,
                            editedFeedback, batchEditedRubricScores>>
           ELSE /\ batchResult' = ReviewedBatch(batchResult, idx, editedFeedback,
                                                batchEditedRubricScores, batchPassThreshold)
                /\ summaryRecomputed' = TRUE
                /\ CancelReviewState
    /\ UNCHANGED <<callVars, singleVars, batchQuestionFile, batchZipFile, batchStudentFiles,
                   batchPassThreshold, batchGrading, batchError, batchInflight,
                   expandedId, isEditingBatchRef>>

\* cancelReviewForItem from the Cancel button
CancelReviewForItem ==
    /\ activeTab = "batch"
    /\ EditingRows(batchResult, expandedId, editingItemId) # {}
    /\ CancelReviewState
    /\ UNCHANGED <<callVars, singleVars, batchAppVars, expandedId, isEditingBatchRef>>

----------------------------------------------------------------------------
(* Calls of the pure functions: `call` holds the function and its arguments, *)
(* `ret` what it returned (Pending before the call).                        *)

Pending == [t |-> "pending", v |-> 0]

\* all sequences over S of length at most n
SeqsUpTo(S, n) == UNION {[1..k -> S] : k \in 0..n}

\* the objects whose fields are pairs of Fields, no key twice, at most n fields
ObjectsOver(Fields, n) ==
    {Obj(kv) : kv \in {s \in SeqsUpTo(Fields, n) :
                          \A i, j \in DOMAIN s : i # j => s[i][1] # s[j][1]}}

MaxFields == 2

PickKeys == {"score", "points", "value"}
PickVals == {Num(0), Bool(FALSE), Str(<<>>), Null, Num(150), Str(<<"x">>)}
PickObjs == ObjectsOver(PickKeys \X PickVals, MaxFields)
PickKeyLists ==
    {s \in SeqsUpTo(PickKeys, 3) : s # <<>> /\ \A i, j \in DOMAIN s : i # j => s[i] # s[j]}

InitPick ==
    /\ call \in {[fn |-> "pick", o |-> o, keys |-> ks] : o \in PickObjs, ks \in PickKeyLists}
    /\ ret = Pending
    /\ InitSingleState
    /\ InitBatchState

CallPick ==
    /\ call.fn = "pick"
    /\ ret = Pending
    /\ ret' = pick(call.o, call.keys)
    /\ UNCHANGED <<call, singleVars, batchVars>>

NextPick == CallPick

SpecPick == InitPick /\ [][NextPick]_vars

\* C5: pick(obj, aliases) returns the value of the first alias, in list order,
\* that is a present key of obj, whatever that value is (0, false, "" and null
\* included), and returns undefined only when no alias is a present key.
C5_PickFirstPresent ==
    (call.fn = "pick" /\ ret # Pending) =>
        LET present == {i \in DOMAIN call.keys : Has(call.o, call.keys[i])}
        IN  /\ present = {} <=> ret = Undef
            /\ present # {} =>
                  \E i \in present :
                      /\ \A j \in present : i <= j
                      /\ ret = Get(call.o, call.keys[i])

\* a falsy value was returned although a later alias holds a truthy one
C5_Witness ==
    /\ call.fn = "pick"
    /\ ret \in {Num(0), Bool(FALSE), Str(<<>>), Null}
    /\ \E i \in DOMAIN call.keys : Has(call.o, call.keys[i]) /\ Truthy(Get(call.o, call.keys[i]))

----------------------------------------------------------------------------
(* Calls of normItem *)

MaxItemFields == 2
MaxIdx == 1

NameA == <<"A">>
NameB == <<"B">>
Blank == <<" ">>

ItemPairs ==
    {<<"criterion", Str(<<" ", "A", " ">>)>>, <<"criterion", Str(Blank)>>, <<"criterion", Null>>,
     <<"name", Str(NameB)>>, <<"title", Num(500)>>,
     <<"weight", Num(200)>>, <<"weight", Str(<<"a", "b", "c">>)>>, <<"weight", Null>>,
     <<"w", Num(300)>>,
     <<"comment", Str(<<"c">>)>>, <<"feedback", Str(<<"f">>)>>,
     <<"note", Str(<<"n">>)>>, <<"note", Str(Blank)>>,
     <<"score", Num(50)>>}

RawItems == ObjectsOver(ItemPairs, MaxItemFields)

UserNameLists == {<<>>, <<<<"R">>>>, <<Blank, <<"S">>>>}

WeightMaps ==
    {Undef,
     Obj(<< <<NameA, Num(300)>> >>),
     Obj(<< <<NameA, Str(<<"a", "b", "c">>)>>, <<NameB, Str(<<"4">>)>> >>),
     Obj(<< <<ItemLabel(0), Num(400)>>, <<<<"R">>, Null>> >>)}

InitNormItem ==
    /\ call \in {[fn |-> "normItem", it |-> it, idx |-> i, names |-> ns, map |-> m] :
                    it \in RawItems, i \in 0..MaxIdx, ns \in UserNameLists, m \in WeightMaps}
    /\ ret = Pending
    /\ InitSingleState
    /\ InitBatchState

CallNormItem ==
    /\ call.fn = "normItem"
    /\ ret = Pending
    /\ ret' = normItem(call.it, call.idx, call.names, call.map)
    /\ UNCHANGED <<call, singleVars, batchVars>>

NextNormItem == CallNormItem

SpecNormItem == InitNormItem /\ [][NextNormItem]_vars

NormItemDone == call.fn = "normItem" /\ ret # Pending /\ ret # Threw

\* the text a name alias value stands for: a string as is, a number as its
\* decimal text, nothing for null
AliasText(x) ==
    CASE x.t = "str" -> Trim(x.v)
      [] x.t = "num" -> NumberToString(x.v)
      [] OTHER -> <<>>

\* the value of the first alias of `aliases` that is a key of `it`
FirstPresent(it, aliases) ==
    LET present == {i \in DOMAIN aliases : Has(it, aliases[i])}
    IN  IF present = {} THEN Undef
        ELSE Get(it, aliases[CHOOSE i \in present : \A j \in present : i <= j])

\* the first string-typed field value of `it` among the keys not in `skip`
FirstStringField(it, skip) ==
    LET hits == {i \in DOMAIN it.v : it.v[i][2].t = "str" /\ it.v[i][1] \notin skip}
    IN  IF hits = {} THEN <<>>
        ELSE Trim(it.v[CHOOSE i \in hits : \A j \in hits : i <= j][2].v)

\* the name the four priorities give, the fallback scan skipping the keys `skip`
NameByPriority(it, idx, names, skip) ==
    LET p1 == AliasText(FirstPresent(it, NameAliases))
        p2 == IF idx + 1 \in DOMAIN names THEN Trim(names[idx + 1]) ELSE <<>>
        p3 == FirstStringField(it, skip)
    IN  IF p1 # <<>> THEN p1
        ELSE IF p2 # <<>> THEN p2
        ELSE IF p3 # <<>> THEN p3
        ELSE <<"I", "t", "e", "m", " ">> \o NatToString(idx + 1)

\* C6 as stated: the resolved criterion name is non-empty and chosen by strict
\* priority: first present name alias (trimmed), else the reviewer name at the
\* index (trimmed), else the trimmed first string-typed field value of the raw
\* item, else "Item " + (index + 1).
C6_NamePriorityAnyField ==
    NormItemDone =>
        /\ Get(ret, "criterion").v # <<>>
        /\ Get(ret, "criterion").v = NameByPriority(call.it, call.idx, call.names, {})

\* C6 amended: as C6, the third priority being the trimmed first string-typed
\* field value among the fields whose key is not "comment".
C6_NamePriority ==
    NormItemDone =>
        /\ Get(ret, "criterion").v # <<>>
        /\ Get(ret, "criterion").v = NameByPriority(call.it, call.idx, call.names, {"comment"})

\* the synthesized name "Item 2" was needed although the item has a string field
C6_Witness ==
    /\ NormItemDone
    /\ call.idx = 1
    /\ Get(ret, "criterion").v = <<"I", "t", "e", "m", " ", "2">>
    /\ \E i \in DOMAIN call.it.v : call.it.v[i][2].t = "str"

\* C7: the criterion weight is the base weight (first present of weight / w /
\* weighting coerced to a number, 1 if absent or not finite) unless the global
\* weights_used map has a key equal to the resolved criterion name whose value
\* coerces to a finite number, and then it is that value; a non-finite map
\* value leaves the base weight unchanged.
C7_WeightOverride ==
    NormItemDone =>
        LET name == Get(ret, "criterion").v
            raw == FirstPresent(call.it, WeightAliases)
            base == IF raw # Undef /\ IsFinite(ToNumber(raw)) THEN ToNumber(raw) ELSE Num(100)
            overrides == /\ call.map # Undef
                         /\ Has(call.map, name)
                         /\ IsFinite(ToNumber(Get(call.map, name)))
        IN  Get(ret, "weight") = IF overrides THEN ToNumber(Get(call.map, name)) ELSE base

\* the map holds the name with a value that is no number, and the item's own
\* weight 2 was kept
C7_Witness ==
    /\ NormItemDone
    /\ call.map # Undef
    /\ Has(call.map, Get(ret, "criterion").v)
    /\ ~IsFinite(ToNumber(Get(call.map, Get(ret, "criterion").v)))
    /\ Get(call.it, "weight") = Num(200)
    /\ Get(ret, "weight") = Num(200)

----------------------------------------------------------------------------
(* Calls of recomputeOverallManual and recomputeOverallManualForItem.  The   *)
(* criteria are those normItem builds from raw rubric items and the payload's *)
(* weights_used map; the scores are those a backend returns or a reviewer    *)
(* types.                                                                    *)

MaxCriteria == 2

RecScores == {0, 50, 100, 200, 225, -650}
RecNamedWeights == {<<NameA, 200>>, <<NameB, 100>>, <<NameA, 100>>}

RecRawItems ==
    {Obj(<< <<"criterion", Str(nw[1])>>, <<"score", Num(sc)>>, <<"weight", Num(nw[2])>> >>) :
        nw \in RecNamedWeights, sc \in RecScores}

RecMaps ==
    {Undef,
     Obj(<<>>),
     Obj(<< <<NameA, Num(300)>> >>),
     Obj(<< <<NameA, Str(<<"a", "b", "c">>)>>, <<NameB, Num(0)>> >>)}

\* the criteria normItem makes of the raw items, in order
CriteriaOf(rawItems, map) ==
    [i \in DOMAIN rawItems |-> normItem(rawItems[i], i - 1, <<>>, map)]

InitRecompute ==
    /\ call \in {[fn |-> f, scores |-> CriteriaOf(raws, m), weightsUsed |-> m] :
                    f \in {"recomputeOverallManual", "recomputeOverallManualForItem"},
                    raws \in SeqsUpTo(RecRawItems, MaxCriteria),
                    m \in RecMaps}
    /\ ret = Pending
    /\ InitSingleState
    /\ InitBatchState

CallRecomputeOverallManual ==
    /\ call.fn = "recomputeOverallManual"
    /\ ret = Pending
    /\ ret' = recomputeOverallManual(call.scores, call.weightsUsed)
    /\ UNCHANGED <<call, singleVars, batchVars>>

CallRecomputeOverallManualForItem ==
    /\ call.fn = "recomputeOverallManualForItem"
    /\ ret = Pending
    /\ ret' = recomputeOverallManualForItem(call.scores, call.weightsUsed)
    /\ UNCHANGED <<call, singleVars, batchVars>>

NextRecompute == CallRecomputeOverallManual \/ CallRecomputeOverallManualForItem

SpecRecompute == InitRecompute /\ [][NextRecompute]_vars

RecomputeDone ==
    call.fn \in {"recomputeOverallManual", "recomputeOverallManualForItem"} /\ ret # Pending

RECURSIVE SumOver(_, _)
\* the sum of f[i] over the indices i in S
SumOver(f, S) ==
    IF S = {} THEN 0
    ELSE LET i == CHOOSE x \in S : TRUE IN f[i] + SumOver(f, S \ {i})

\* r (in hundredths) is p / (10 * q) rounded to one decimal, q > 0, a tie
\* going up: r is a whole number t of tenths with t <= p/q + 1/2 < t + 1
IsRoundedTenths(r, p, q) ==
    /\ r % 10 = 0
    /\ 2 * (r \div 10) * q <= 2 * p + q
    /\ 2 * p + q < 2 * ((r \div 10) + 1) * q

ScoreAt(scores, i) == Get(scores[i], "score").v
OwnWeightAt(scores, i) == Get(scores[i], "weight").v

\* 100 when every score is at most 1, else 1
ClaimedScale(scores) == IF \A i \in DOMAIN scores : ScoreAt(scores, i) <= 100 THEN 100 ELSE 1

\* C1: with no global weight map the aggregate recompute weights each
\* criterion by its own per-item weight: the result is
\* round1(scale * SUM(score * weight) / SUM(weight)), so that
\* [{score 1, weight 2}, {score 0, weight 1}] gives 66.7.
C1_OwnWeightsWithoutMap ==
    (RecomputeDone /\ call.weightsUsed = Undef /\ call.scores # <<>>) =>
        LET n == DOMAIN call.scores
            sw == SumOver([i \in n |-> ScoreAt(call.scores, i) * OwnWeightAt(call.scores, i)], n)
            w == SumOver([i \in n |-> OwnWeightAt(call.scores, i)], n)
        IN  IsRoundedTenths(ret.v, sw * ClaimedScale(call.scores), 10 * w)

\* C8: the aggregate recompute multiplies the weighted mean by 100 exactly
\* when the maximum criterion score is at most 1 and leaves it unscaled
\* otherwise; when every score lies in [0,1] the output lies in [0,100]; an
\* empty criteria list gives 0.  (The weighted mean is taken with the weights
\* the recompute uses; whatever they are, the result lies between the least
\* and the greatest score, scaled and rounded.)
C8_ScaleDetection ==
    RecomputeDone =>
        LET n == DOMAIN call.scores
            xs == [i \in n |-> ScoreAt(call.scores, i)]
            ws == [i \in n |-> EffectiveWeight(call.scores[i], call.weightsUsed)]
            scale == ClaimedScale(call.scores)
        IN  /\ call.scores = <<>> => ret = Num(0)
            /\ call.scores # <<>> =>
                  /\ IsFinite(ret)
                  /\ IsRoundedTenths(ret.v, SumOver([i \in n |-> xs[i] * ws[i]], n) * scale,
                                     10 * SumOver(ws, n))
                  /\ 10 * MathRound(MinOf(xs) * scale, 10) <= ret.v
                  /\ ret.v <= 10 * MathRound(MaxOf(xs) * scale, 10)
            /\ (\A i \in n : 0 <= xs[i] /\ xs[i] <= 100) => (0 <= ret.v /\ ret.v <= 10000)

\* two criteria, the greatest score exactly 1: the mean 0.75 came out as 75
C8_Witness ==
    /\ RecomputeDone
    /\ Len(call.scores) = 2
    /\ ScoreAt(call.scores, 1) = 100
    /\ ScoreAt(call.scores, 2) = 50
    /\ call.weightsUsed = Undef
    /\ ret = Num(7500)

----------------------------------------------------------------------------
(* Calls of recomputeBatchSummary, made by applyReviewForItem.  The items are *)
(* those normalizeBatchResponse makes of a raw batch payload, one of them     *)
(* possibly rewritten by the review being applied.  Its new overall_score is  *)
(* recomputeOverallManualForItem's, a sum of IEEE doubles: scores 1e308 and   *)
(* -1e308 under weights of 10 add Infinity to -Infinity, and the score stored *)
(* is NaN.  The integers of this module do not overflow, so that outcome is   *)
(* drawn here as an input.                                                    *)

MaxBatch == 4

SummaryScores == {5000, 6000, 7000, 8000}

SummaryRawItems ==
    {Obj(<< <<"ok", Bool(FALSE)>>, <<"error", Str(<<"e">>)>> >>),
     Obj(<< <<"ok", Bool(TRUE)>> >>)}
    \cup {Obj(<< <<"ok", Bool(TRUE)>>, <<"result", Obj(<< <<"overall_score", Num(sc)>> >>)>> >>) :
            sc \in SummaryScores}

Thresholds == {<<"6", "0">>, <<"7", "0", ".", "5">>, <<>>, <<"a", "b", "c">>}

ItemsOfPayload(rawItems) ==
    Get(normalizeBatchResponse(Obj(<< <<"items", Arr(rawItems)>> >>), <<>>), "items").v

\* { ...item, result: { ...item.result, overall_score: newOverall,
\*   weighted_overall: newOverall, ... } } for the item at idx, newOverall NaN;
\* idx 0 is no review applied, and an item without a result is left alone
OverflowedReview(items, idx) ==
    IF idx \in DOMAIN items /\ Truthy(Get(items[idx], "result"))
    THEN [items EXCEPT ![idx] =
            SetField(@, "result",
                     SetField(SetField(Get(@, "result"), "overall_score", NaN),
                              "weighted_overall", NaN))]
    ELSE items

\* result.items of the batch result held when the review is applied
SummaryBatches == {ItemsOfPayload(raws) : raws \in SeqsUpTo(SummaryRawItems, MaxBatch)}

InitSummary ==
    /\ call \in {[fn |-> "recomputeBatchSummary",
                  items |-> OverflowedReview(items, idx),
                  passThreshold |-> th] :
                    items \in SummaryBatches, idx \in 0..MaxBatch, th \in Thresholds}
    /\ ret = Pending
    /\ InitSingleState
    /\ InitBatchState

CallRecomputeBatchSummary ==
    /\ call.fn = "recomputeBatchSummary"
    /\ ret = Pending
    /\ ret' = recomputeBatchSummary(call.items, call.passThreshold)
    /\ UNCHANGED <<call, singleVars, batchVars>>

NextSummary == CallRecomputeBatchSummary

SpecSummary == InitSummary /\ [][NextSummary]_vars

SummaryDone == call.fn = "recomputeBatchSummary" /\ ret # Pending

\* the indices of the items with ok true and a result whose overall_score is a
\* finite number
QualifyingIndices(items) ==
    {i \in DOMAIN items :
        /\ Get(items[i], "ok") = Bool(TRUE)
        /\ Get(items[i], "result").t = "obj"
        /\ Get(Get(items[i], "result"), "overall_score").t = "num"}

OverallAt(items, i) == Get(Get(items[i], "result"), "overall_score").v

\* no item carries an overall_score that is a number and not finite
AllScoresFinite(items) ==
    \A i \in DOMAIN items : Get(Get(items[i], "result"), "overall_score").t # "nan"

\* the text is a decimal literal (not blank, not a word)
IsDecimalText(text) == Trim(text) # <<>> /\ StringToNumber(text).t = "num"

\* C9: recomputeBatchSummary returns pass_rate = 100 * (number of qualifying
\* scores >= threshold) / n rounded to one decimal, a score equal to the
\* threshold passing; scores [50,60,70,80] with threshold 60 give 75.0.
C9_PassRate ==
    (/\ SummaryDone
     /\ IsDecimalText(call.passThreshold)
     /\ QualifyingIndices(call.items) # {}
     /\ AllScoresFinite(call.items)) =>
        LET Q == QualifyingIndices(call.items)
            passed == {i \in Q : OverallAt(call.items, i) >= StringToNumber(call.passThreshold).v}
        IN  IsRoundedTenths(Get(ret, "pass_rate").v, 1000 * Cardinality(passed), Cardinality(Q))

\* scores 50, 60, 70, 80 against the threshold 60: 75.0
C9_Witness ==
    /\ SummaryDone
    /\ call.passThreshold = <<"6", "0">>
    /\ Len(call.items) = 4
    /\ \A i \in 1..4 : i \in QualifyingIndices(call.items) /\ OverallAt(call.items, i) = 4000 + 1000 * i
    /\ Get(ret, "pass_rate") = Num(7500)

\* C10: recomputeBatchSummary takes into account exactly the items with ok
\* true and a result whose overall_score is a finite number; when no item
\* qualifies it returns avg, min, max, stdev and pass_rate all 0, and every
\* returned field is a finite number.
C10_QualifyingOnly ==
    SummaryDone =>
        LET Q == QualifyingIndices(call.items)
            total == SumOver([i \in Q |-> OverallAt(call.items, i)], Q)
            zero == Obj(<< <<"avg", Num(0)>>, <<"min", Num(0)>>, <<"max", Num(0)>>,
                           <<"stdev", Num(0)>>, <<"pass_rate", Num(0)>> >>)
        IN  /\ \A k \in {"avg", "min", "max", "stdev", "pass_rate"} : Get(ret, k).t = "num"
            /\ Q = {} => ret = zero
            /\ Q # {} =>
                  /\ \E i \in Q : Get(ret, "min").v = OverallAt(call.items, i)
                  /\ \E i \in Q : Get(ret, "max").v = OverallAt(call.items, i)
                  /\ \A i \in Q : /\ Get(ret, "min").v <= OverallAt(call.items, i)
                                  /\ OverallAt(call.items, i) <= Get(ret, "max").v
                  /\ IsRoundedTenths(Get(ret, "avg").v, total, 10 * Cardinality(Q))

----------------------------------------------------------------------------
(* Calls of normalizeGradeResponse and normalizeBatchResponse *)

MaxRawBatch == 2

\* elements of a raw rubric array: objects, and values that are not objects
RawRubricElems ==
    {Obj(<< <<"criterion", Str(<<" ", "A", " ">>)>>, <<"score", Num(50)>>,
            <<"weight", Num(200)>>, <<"comment", Str(<<"c">>)>> >>),
     Obj(<< <<"name", Str(NameB)>>, <<"points", Str(<<"0", ".", "5">>)>>, <<"w", Null>> >>),
     Obj(<< <<"weight", Num(200)>> >>),
     Obj(<< <<"note", Str(<<"n">>)>>, <<"feedback", Str(<<"f">>)>> >>),
     Null, Str(<<"x">>), Num(700)}

RawRubrics == SeqsUpTo(RawRubricElems, MaxCriteria)

\* the fields of a raw single payload other than its rubric array and weights
RawGradeHeads ==
    {<<>>,
     << <<"overall_score", Num(8550)>>, <<"feedback", Str(<<"f">>)>>,
        <<"reference_answer", Str(<<"r">>)>>, <<"weighted_overall", Num(8550)>>,
        <<"reference_answer_generated", Bool(TRUE)>> >>,
     << <<"overall_score", Null>>, <<"total_score", Str(<<"7", "0">>)>>,
        <<"overall_comment", Str(<<"c">>)>>, <<"summary", Str(<<"s">>)>>,
        <<"reference", Num(500)>>, <<"weighted_overall", Str(<<"7", "0">>)>>,
        <<"generated_reference", Num(100)>> >>}

\* where a raw single payload carries its rubric array
RawRubricFields(rubric) ==
    {<< <<"rubric_scores", Arr(rubric)>> >>,
     << <<"rubric_scores", Str(<<"x">>)>>, <<"rubric", Arr(rubric)>> >>,
     << <<"details", Arr(rubric)>> >>}

\* the weights_used field of a raw payload: absent, a map, not an object
RawWeightFields ==
    {<<>>,
     << <<"weights_used", Obj(<< <<NameA, Num(300)>>, <<ItemLabel(0), Str(<<"a", "b", "c">>)>> >>)>> >>,
     << <<"weights_used", Str(<<"w">>)>> >>}

RawGradePayloads ==
    {Obj(h \o r \o w) : h \in RawGradeHeads,
                        r \in UNION {RawRubricFields(rubric) : rubric \in RawRubrics},
                        w \in RawWeightFields}

\* elements of a raw batch items array
RawBatchElems ==
    {Obj(<< <<"id", Str(<<"s", "1">>)>>, <<"file", Str(<<"a">>)>>, <<"ok", Bool(TRUE)>>,
            <<"result", Obj(<< <<"overall_score", Num(7000)>>, <<"feedback", Str(<<"f">>)>>,
                               <<"rubric_scores",
                                 Arr(<< Obj(<< <<"criterion", Str(NameA)>>,
                                               <<"score", Num(7000)>> >>) >>)>> >>)>> >>),
     Obj(<< <<"id", Num(500)>>, <<"ok", Bool(TRUE)>> >>),
     Obj(<< <<"ok", Bool(FALSE)>>, <<"error", Str(<<"e">>)>>,
            <<"result", Obj(<< <<"overall_score", Num(1000)>> >>)>> >>),
     Obj(<< <<"ok", Bool(TRUE)>>,
            <<"result", Obj(<< <<"rubric_scores", Arr(<<Null>>)>> >>)>> >>),
     Null, Str(<<"x">>)}

\* the summary field of a raw batch payload: absent, fractions, text
RawSummaryFields ==
    {<<>>,
     << <<"summary", Obj(<< <<"avg", Num(7000)>>, <<"min", Num(5000)>>, <<"max", Num(8000)>>,
                            <<"stdev", Num(1120)>>, <<"pass_rate", Num(75)>> >>)>> >>,
     << <<"summary", Obj(<< <<"pass_rate", Str(<<"0", ".", "5">>)>> >>)>> >>,
     << <<"summary", Obj(<< <<"avg", Num(0)>>, <<"pass_rate", Num(0)>> >>)>> >>}

\* the fields of a raw batch payload other than its items and summary
RawBatchHeads ==
    {<<>>,
     << <<"count", Str(<<"3">>)>>, <<"success_count", Num(200)>>,
        <<"rubric_used", Arr(<<Str(NameA), Null, Str(<<>>)>>)>>,
        <<"weights_used", Obj(<< <<NameA, Num(300)>> >>)>>,
        <<"reference_answer", Str(<<"r">>)>>,
        <<"reference_answer_generated", Num(100)>>,
        <<"report_files", Obj(<< <<"txt", Str(<<"t">>)>> >>)>> >>}

RawBatchPayloads ==
    {Obj(h \o << <<"items", Arr(items)>> >> \o s) :
        h \in RawBatchHeads, items \in SeqsUpTo(RawBatchElems, MaxRawBatch), s \in RawSummaryFields}

InitNormalize ==
    /\ call \in {[fn |-> "normalizeGradeResponse", raw |-> raw, names |-> ns] :
                    raw \in RawGradePayloads, ns \in UserNameLists}
          \cup {[fn |-> "normalizeBatchResponse", raw |-> raw, names |-> ns] :
                    raw \in RawBatchPayloads, ns \in UserNameLists}
    /\ ret = Pending
    /\ InitSingleState
    /\ InitBatchState

CallNormalizeGradeResponse ==
    /\ call.fn = "normalizeGradeResponse"
    /\ ret = Pending
    /\ ret' = normalizeGradeResponse(call.raw, call.names)
    /\ UNCHANGED <<call, singleVars, batchVars>>

CallNormalizeBatchResponse ==
    /\ call.fn = "normalizeBatchResponse"
    /\ ret = Pending
    /\ ret' = normalizeBatchResponse(call.raw, call.names)
    /\ UNCHANGED <<call, singleVars, batchVars>>

NextNormalize == CallNormalizeGradeResponse \/ CallNormalizeBatchResponse

SpecNormalize == InitNormalize /\ [][NextNormalize]_vars

\* C4: normalization is total: for every raw payload, also one whose rubric
\* array or items array holds elements that are not objects, both
\* normalizeGradeResponse and normalizeBatchResponse return a canonical
\* result and never raise.
C4_NormalizationTotal ==
    (call.fn \in {"normalizeGradeResponse", "normalizeBatchResponse"} /\ ret # Pending) =>
        ret # Threw /\ IsObj(ret)

\* C2: normalizing a canonical batch result again, as it is in memory or as
\* it reads back from its JSON export, reproduces it field for field,
\* summary.pass_rate included.
C2_BatchRenormalization ==
    (call.fn = "normalizeBatchResponse" /\ ret # Pending /\ ret # Threw) =>
        /\ normalizeBatchResponse(ret, call.names) = ret
        /\ normalizeBatchResponse(JsonRoundTrip(ret), call.names) = ret

----------------------------------------------------------------------------
(* Single grading: the App and its SingleGradingCard *)

NoCall == [fn |-> "none"]

InitSingle ==
    /\ call = NoCall
    /\ ret = Pending
    /\ InitSingleState
    /\ InitBatchState

NextSingle ==
    \/ SetActiveTab
    \/ OnQuestionFileChange
    \/ OnStudentFileChange
    \/ OnSubmitSingle
    \/ HandleRegradeClick
    \/ GradeResponseOk
    \/ GradeResponseFail
    \/ ToggleEditingRef
    \/ ToggleReviewMode
    \/ HandleEditRubricScore
    \/ EditOverallComment
    \/ ApplyManualReview
    \/ CancelManualReview

SpecSingle == InitSingle /\ [][NextSingle]_vars

\* C3: every result the single card holds, straight from normalizeGradeResponse
\* or after applied manual edits, is reproduced by normalizeGradeResponse for
\* every reviewer-name list: the same overall_score, overall_comment, criteria,
\* reference_answer, reference_answer_generated, weighted_overall, weights_used.
C3_SingleRenormalization ==
    result # Null => \A names \in UserNameLists : normalizeGradeResponse(result, names) = result

----------------------------------------------------------------------------
(* Batch grading: the application from its start, the reviewer working in   *)
(* the batch tab.                                                            *)

InitBatch ==
    /\ call = NoCall
    /\ ret = Pending
    /\ InitSingleState
    /\ InitBatchState

NextBatch ==
    \/ SetActiveTab
    \/ OnBatchQuestionFileChange
    \/ HandleStudentFilesUpload
    \/ ClearSelection
    \/ OnPassThresholdChange
    \/ OnSubmitBatch
    \/ ToggleEditingBatchRef
    \/ HandleBatchRegradeClick
    \/ BatchResponseOk
    \/ BatchResponseFail
    \/ ToggleExpanded
    \/ BeginReviewForItem
    \/ BatchHandleEditRubricScore
    \/ EditFeedback
    \/ ApplyReviewForItem
    \/ CancelReviewForItem

SpecBatch == InitBatch /\ [][NextBatch]_vars

\* the value is null or undefined
IsAbsent(x) == x \in {Null, Undef}

\* C11: every BatchItem of the held batch result, as normalizeBatchResponse
\* produced it and as review edits keep it, has ok true only with a result
\* present and no error, and ok false only with no result.
C11_BatchItemInvariant ==
    batchResult # Null =>
        \A idx \in DOMAIN Get(batchResult, "items").v :
            LET it == Get(batchResult, "items").v[idx]
            IN  /\ Get(it, "ok") = Bool(TRUE) =>
                      ~IsAbsent(Get(it, "result")) /\ IsAbsent(Get(it, "error"))
                /\ Get(it, "ok") = Bool(FALSE) => IsAbsent(Get(it, "result"))

----------------------------------------------------------------------------
(* Both cards.  The cards share no state but activeTab, so the reviewer is   *)
(* followed through one mode at a time: the single card's handlers run while *)
(* the batch state of AIFeedbackFrontend is as constructed, the batch card's *)
(* while the single state is.                                                *)

SingleAppPristine ==
    /\ ~questionFile /\ ~studentFile /\ ~grading
    /\ gradeError = Null /\ result = Null /\ inflight = {}

BatchAppPristine ==
    /\ ~batchQuestionFile /\ batchZipFile = Null /\ batchStudentFiles = <<>>
    /\ batchPassThreshold = <<"6", "0", ".", "0">>
    /\ ~batchGrading /\ batchError = Null /\ batchResult = Null /\ batchInflight = {}

NextCards ==
    \/ SetActiveTab
    \/ BatchAppPristine /\ OnQuestionFileChange
    \/ BatchAppPristine /\ OnStudentFileChange
    \/ BatchAppPristine /\ OnSubmitSingle
    \/ BatchAppPristine /\ HandleRegradeClick
    \/ BatchAppPristine /\ GradeResponseOk
    \/ BatchAppPristine /\ GradeResponseFail
    \/ BatchAppPristine /\ ToggleEditingRef
    \/ BatchAppPristine /\ ToggleReviewMode
    \/ BatchAppPristine /\ HandleEditRubricScore
    \/ BatchAppPristine /\ EditOverallComment
    \/ BatchAppPristine /\ ApplyManualReview
    \/ BatchAppPristine /\ CancelManualReview
    \/ SingleAppPristine /\ OnBatchQuestionFileChange
    \/ SingleAppPristine /\ HandleStudentFilesUpload
    \/ SingleAppPristine /\ ClearSelection
    \/ SingleAppPristine /\ OnPassThresholdChange
    \/ SingleAppPristine /\ OnSubmitBatch
    \/ SingleAppPristine /\ ToggleEditingBatchRef
    \/ SingleAppPristine /\ HandleBatchRegradeClick
    \/ SingleAppPristine /\ BatchResponseOk
    \/ SingleAppPristine /\ BatchResponseFail
    \/ SingleAppPristine /\ ToggleExpanded
    \/ SingleAppPristine /\ BeginReviewForItem
    \/ SingleAppPristine /\ BatchHandleEditRubricScore
    \/ SingleAppPristine /\ EditFeedback
    \/ SingleAppPristine /\ ApplyReviewForItem
    \/ SingleAppPristine /\ CancelReviewForItem

SpecCards == InitBatch /\ [][NextCards]_vars

\* overall_score and weighted_overall of the single result both equal the
\* recompute of its criteria under its weights_used
SingleOverallsAgree(res) ==
    /\ res # Null
    /\ Get(res, "overall_score") =
          recomputeOverallManual(ScoresOf(res), Get(res, "weights_used"))
    /\ Get(res, "weighted_overall") = Get(res, "overall_score")

\* the same for the batch item at idx, under the batch result's weights_used
ItemOverallsAgree(res, idx) ==
    /\ res # Null
    /\ idx \in ResultRows(res)
    /\ LET r == Get(Get(res, "items").v[idx], "result")
       IN  /\ Get(r, "overall_score") =
                 recomputeOverallManualForItem(ScoresOf(r), Nullish(Get(res, "weights_used"), Undef))
           /\ Get(r, "weighted_overall") = Get(r, "overall_score")

\* C12: every applied manual review (applyManualReview, applyReviewForItem)
\* leaves overall_score and weighted_overall of the edited result both equal
\* to the recompute of the edited criteria under the result's weights_used,
\* and they stay so until a grading request or response replaces the snapshot.
C12_ApplyRecomputesBoth ==
    [][/\ ApplyManualReview => SingleOverallsAgree(result')
       /\ (/\ result' # result
           /\ SingleOverallsAgree(result)
           /\ ~OnSubmitSingle
           /\ ~GradeResponseOk) => SingleOverallsAgree(result')
       /\ (/\ editingItemId # Null
           /\ editingItemId' = Null
           /\ ApplyReviewForItem)
              => ItemOverallsAgree(batchResult', FindIndex(batchResult, editingItemId))
       /\ (/\ batchResult' # batchResult
           /\ ~OnSubmitBatch
           /\ ~BatchResponseOk)
              => \A idx \in ResultRows(batchResult) :
                    ItemOverallsAgree(batchResult, idx) => ItemOverallsAgree(batchResult', idx)]_vars

\* a batch item whose only criterion was edited to 0.5 and saved: both
\* overall fields are 50, the backend having sent 80 and no weighted_overall
C12_Witness ==
    /\ batchResult # Null
    /\ 1 \in ResultRows(batchResult)
    /\ LET r == Get(Get(batchResult, "items").v[1], "result")
       IN  /\ Len(ScoresOf(r)) = 1
           /\ Get(ScoresOf(r)[1], "score") = Num(50)
           /\ Get(r, "overall_score") = Num(5000)
           /\ Get(r, "weighted_overall") = Num(5000)
    /\ ItemOverallsAgree(batchResult, 1)
    /\ editingItemId = Null

\* a step of the review buffer that is no Apply: an edit of a row, of the
\* comment or of the feedback, or Discard / Cancel
BufferStep ==
    \/ HandleEditRubricScore
    \/ EditOverallComment
    \/ CancelManualReview
    \/ BatchHandleEditRubricScore
    \/ EditFeedback
    \/ CancelReviewForItem

\* C13 as stated: edits of the review buffer and Discard / Cancel leave the
\* held result and all its criteria unchanged, and the held result changes
\* only on Apply or on a grading response.
C13_ChangedOnlyByApplyOrResponse ==
    [][/\ (result' # result) => (ApplyManualReview \/ GradeResponseOk)
       /\ (batchResult' # batchResult) => (ApplyReviewForItem \/ BatchResponseOk)
       /\ (result' # result \/ batchResult' # batchResult) => ~BufferStep]_vars

\* C13 amended: as C13, the held result changing also when a new grading is
\* submitted, which clears it at once.
C13_HeldResultFrame ==
    [][/\ (result' # result) => (ApplyManualReview \/ GradeResponseOk \/ OnSubmitSingle)
       /\ (batchResult' # batchResult) => (ApplyReviewForItem \/ BatchResponseOk \/ OnSubmitBatch)
       /\ (result' # result \/ batchResult' # batchResult) => ~BufferStep]_vars

\* a review in progress on the single card: the buffer's row was edited to
\* score 0 and comment "x" while the held row still has 0.5 and "c"
C13_Witness ==
    /\ result # Null
    /\ reviewMode
    /\ Len(ScoresOf(result)) = 1
    /\ Len(editedRubricScores) = 1
    /\ Get(ScoresOf(result)[1], "score") = Num(50)
    /\ Get(ScoresOf(result)[1], "comment") = Str(<<"c">>)
    /\ Get(editedRubricScores[1], "score") = Num(0)
    /\ Get(editedRubricScores[1], "comment") = Str(<<"x">>)

\* the two criteria sequences have the same length and, place by place, the
\* same names and weights
SameNamesAndWeights(rows, rows2) ==
    /\ Len(rows) = Len(rows2)
    /\ \A i \in DOMAIN rows :
          /\ Get(rows[i], "criterion") = Get(rows2[i], "criterion")
          /\ Get(rows[i], "weight") = Get(rows2[i], "weight")

\* C14: the criteria of a result normalizeGradeResponse returns are as many
\* as the raw rubric items it was built from, and Apply after any review
\* edits preserves the length, order, names and weights of the held result's
\* criteria.
C14_CriteriaShapeKept ==
    [][/\ (result' # result /\ GradeResponseOk) =>
              \E req \in inflight, raw \in SingleRawPayloads :
                  /\ result' = normalizeGradeResponse(raw, req.names)
                  /\ Len(ScoresOf(result')) = Len(ItemsSrc(raw))
       /\ ApplyManualReview => SameNamesAndWeights(ScoresOf(result), ScoresOf(result'))]_vars

----------------------------------------------------------------------------
(* The weight the recompute gives a criterion under a non-empty weight map   *)

\* the weight claimed for criterion i: the map's entry when it is finite and
\* positive, else the criterion's own weight when that is finite and
\* positive, else 1 (in hundredths)
ClaimedWeightAt(scores, i, weightsUsed) ==
    LET entry == ToNumber(Nullish(Get(weightsUsed, Get(scores[i], "criterion").v), Undef))
        own == Get(scores[i], "weight")
    IN  IF IsFinite(entry) /\ entry.v > 0 THEN entry.v
        ELSE IF IsFinite(own) /\ own.v > 0 THEN own.v
        ELSE 100

\* C15: under a non-empty global weight map, a criterion whose name has no
\* entry, a non-finite entry or a non-positive entry in the map is weighted
\* by its own per-item weight when that is finite and positive, and by 1
\* otherwise; every weight used is finite and greater than 0.
C15_OwnWeightFallback ==
    (RecomputeDone /\ UseWeights(call.weightsUsed) /\ call.scores # <<>>) =>
        LET n == DOMAIN call.scores
            ws == [i \in n |-> ClaimedWeightAt(call.scores, i, call.weightsUsed)]
        IN  /\ \A i \in n : ws[i] > 0
            /\ IsRoundedTenths(ret.v,
                   SumOver([i \in n |-> ScoreAt(call.scores, i) * ws[i]], n)
                       * ClaimedScale(call.scores),
                   10 * SumOver(ws, n))

----------------------------------------------------------------------------
(* The name fallback and the comment aliases *)

\* k is one of the comment aliases
IsCommentAlias(k) == \E i \in DOMAIN CommentAliases : CommentAliases[i] = k

\* the item holds no name alias, and each of its string-typed fields is a
\* comment alias
OnlyCommentStrings(it) ==
    /\ IsObj(it)
    /\ \A i \in DOMAIN NameAliases : ~Has(it, NameAliases[i])
    /\ \A i \in DOMAIN it.v : it.v[i][2].t = "str" => IsCommentAlias(it.v[i][1])

\* C16: the name fallback never takes its value from a field aliased to the
\* comment (comment, feedback, reason, explanation, notes): a raw item with
\* no name alias and no reviewer name whose only string-typed fields are
\* comment aliases gets the name "Item " + (index + 1).
C16_FallbackSkipsCommentAliases ==
    (NormItemDone /\ OnlyCommentStrings(call.it) /\ UserName(call.names, call.idx) = <<>>) =>
        Get(ret, "criterion") = Str(ItemLabel(call.idx))

----------------------------------------------------------------------------
(* The overall score of a normalized single payload *)

OverallScoreAliases == <<"overall_score", "total_score", "score">>

\* C17: normalizeGradeResponse takes overall_score from the first of the
\* keys overall_score, total_score, score that is present in the payload,
\* coerced to a number and 0 when that is not finite, even when the value
\* under that key is null; a later alias counts only when the earlier keys
\* are absent.
C17_OverallScoreByPresence ==
    (call.fn = "normalizeGradeResponse" /\ ret # Pending /\ ret # Threw) =>
        Get(ret, "overall_score") =
            FiniteOr(ToNumber(FirstPresent(call.raw, OverallScoreAliases)), Num(0))

----------------------------------------------------------------------------
(* The rounding of the aggregate *)

\* r (in hundredths) is p / (10 * q) rounded to one decimal, q > 0, a tie
\* going away from zero
IsRoundedTenthsAway(r, p, q) ==
    IF p >= 0 THEN IsRoundedTenths(r, p, q) ELSE IsRoundedTenths(0 - r, 0 - p, q)

\* C18: the aggregate recompute rounds the scaled weighted mean to one
\* decimal, a tie going away from zero, for a negative aggregate as for a
\* positive one (-2.25 gives -2.3).
C18_RoundsTiesAwayFromZero ==
    (RecomputeDone /\ call.scores # <<>>) =>
        LET n == DOMAIN call.scores
            ws == [i \in n |-> EffectiveWeight(call.scores[i], call.weightsUsed)]
        IN  IsRoundedTenthsAway(ret.v,
                SumOver([i \in n |-> ScoreAt(call.scores, i) * ws[i]], n)
                    * ClaimedScale(call.scores),
                10 * SumOver(ws, n))

----------------------------------------------------------------------------
(* The threshold of the batch summary *)

\* the threshold claimed for a pass_threshold text: the number the text
\* denotes, 60 for a text that denotes none (in hundredths)
ClaimedThreshold(passThreshold) ==
    IF IsDecimalText(passThreshold) THEN StringToNumber(passThreshold).v ELSE 6000

\* C19: recomputeBatchSummary uses the threshold 60 for every pass_threshold
\* text that denotes no finite number, non-numeric text as well as the empty
\* or blank text of a cleared threshold input, and the parsed number
\* otherwise: pass_rate is the share of the qualifying scores at or above
\* that threshold.
C19_DefaultThreshold ==
    (/\ SummaryDone
     /\ QualifyingIndices(call.items) # {}
     /\ AllScoresFinite(call.items)) =>
        LET Q == QualifyingIndices(call.items)
            passed == {i \in Q : OverallAt(call.items, i) >= ClaimedThreshold(call.passThreshold)}
        IN  IsRoundedTenths(Get(ret, "pass_rate").v, 1000 * Cardinality(passed), Cardinality(Q))

----------------------------------------------------------------------------
(* src/lib/grading.ts: getRubricNamesFromUser, and JSON.parse of the rubric  *)
(* text.  The parser covers the JSON the rubric texts below are written in: *)
(* arrays, objects, strings without escapes, natural numbers, null and      *)
(* blanks between tokens.                                                    *)

Quote == "\""

\* the outcome of reading one JSON value: the value and the text after it
Parsed(value, rest) == [ok |-> TRUE, value |-> value, rest |-> rest]
\* a SyntaxError
ParseFailed == [ok |-> FALSE, value |-> Undef, rest |-> <<>>]

\* object keys are strings of the model; the keys pick asks for are listed
\* with their spelling, any other key reads as one key that pick never asks for
KeySpellings ==
    {<<"criterion", <<"c", "r", "i", "t", "e", "r", "i", "o", "n">>>>,
     <<"item", <<"i", "t", "e", "m">>>>,
     <<"name", <<"n", "a", "m", "e">>>>,
     <<"title", <<"t", "i", "t", "l", "e">>>>,
     <<"dimension", <<"d", "i", "m", "e", "n", "s", "i", "o", "n">>>>,
     <<"aspect", <<"a", "s", "p", "e", "c", "t">>>>,
     <<"label", <<"l", "a", "b", "e", "l">>>>}
KeyOf(chars) ==
    IF \E ks \in KeySpellings : ks[2] = chars
    THEN (CHOOSE ks \in KeySpellings : ks[2] = chars)[1]
    ELSE "other"

IsPrefix(p, s) == Len(p) <= Len(s) /\ SubSeq(s, 1, Len(p)) = p
Drop(s, n) == SubSeq(s, n + 1, Len(s))

RECURSIVE ParseChars(_, _)
\* the characters of a string literal up to its closing quote
ParseChars(s, acc) ==
    IF s = <<>> THEN ParseFailed
    ELSE IF Head(s) = Quote THEN Parsed(Str(acc), Tail(s))
    ELSE ParseChars(Tail(s), Append(acc, Head(s)))

RECURSIVE ParseDigits(_, _)
\* the digits of a number literal
ParseDigits(s, n) ==
    IF s # <<>> /\ IsDigit(Head(s)) THEN ParseDigits(Tail(s), 10 * n + DigitVal(Head(s)))
    ELSE Parsed(Num(100 * n), s)

RECURSIVE ParseValue(_)
RECURSIVE ParseElements(_, _)
RECURSIVE ParseMembers(_, _)

\* after an element: a comma and the next element, or the closing bracket
ElementsAfter(e, acc) ==
    IF ~e.ok \/ TrimLeft(e.rest) = <<>> THEN ParseFailed
    ELSE IF Head(TrimLeft(e.rest)) = "," THEN ParseElements(Tail(TrimLeft(e.rest)), Append(acc, e.value))
    ELSE IF Head(TrimLeft(e.rest)) = "]" THEN Parsed(Arr(Append(acc, e.value)), Tail(TrimLeft(e.rest)))
    ELSE ParseFailed

\* the elements of an array, the opening bracket already read
ParseElements(s, acc) == ElementsAfter(ParseValue(s), acc)

\* after a member "key": value (a repeated key keeps its last value): a comma
\* and the next member, or the closing brace
MembersAfter(key, m, acc) ==
    IF ~m.ok \/ TrimLeft(m.rest) = <<>> THEN ParseFailed
    ELSE IF Head(TrimLeft(m.rest)) = ","
    THEN ParseMembers(Tail(TrimLeft(m.rest)), SetField(acc, KeyOf(key.v), m.value))
    ELSE IF Head(TrimLeft(m.rest)) = "}"
    THEN Parsed(SetField(acc, KeyOf(key.v), m.value), Tail(TrimLeft(m.rest)))
    ELSE ParseFailed

\* after a member's key: the colon and the member's value
MemberValue(k, acc) ==
    IF ~k.ok \/ TrimLeft(k.rest) = <<>> \/ Head(TrimLeft(k.rest)) # ":" THEN ParseFailed
    ELSE MembersAfter(k.value, ParseValue(Tail(TrimLeft(k.rest))), acc)

\* the members of an object, the opening brace already read
ParseMembers(s, acc) ==
    IF TrimLeft(s) = <<>> \/ Head(TrimLeft(s)) # Quote THEN ParseFailed
    ELSE MemberValue(ParseChars(Tail(TrimLeft(s)), <<>>), acc)

\* one JSON value at the start of the text
ValueAt(s) ==
    IF s = <<>> THEN ParseFailed
    ELSE IF Head(s) = Quote THEN ParseChars(Tail(s), <<>>)
    ELSE IF Head(s) = "["
    THEN IF IsPrefix(<<"]">>, TrimLeft(Tail(s))) THEN Parsed(Arr(<<>>), Tail(TrimLeft(Tail(s))))
         ELSE ParseElements(Tail(s), <<>>)
    ELSE IF Head(s) = "{"
    THEN IF IsPrefix(<<"}">>, TrimLeft(Tail(s))) THEN Parsed(Obj(<<>>), Tail(TrimLeft(Tail(s))))
         ELSE ParseMembers(Tail(s), Obj(<<>>))
    ELSE IF IsDigit(Head(s)) THEN ParseDigits(s, 0)
    ELSE IF IsPrefix(<<"n", "u", "l", "l">>, s) THEN Parsed(Null, Drop(s, 4))
    ELSE ParseFailed

ParseValue(s) == ValueAt(TrimLeft(s))

\* JSON.parse(text): the value, or Threw when the text is not one JSON value
JsonParse(text) ==
    IF ParseValue(text).ok /\ TrimLeft(ParseValue(text).rest) = <<>>
    THEN ParseValue(text).value
    ELSE Threw

\* the callback of data.map: a string as is, the name alias of an object
\* through toStr(pick(...)) ?? "", "" for anything else
EntryName(it) ==
    IF it.t = "str" THEN it.v
    ELSE IF it.t \in {"obj", "arr"} THEN OrEmpty(toStr(pick(it, NameAliases))).v
    ELSE <<>>

\* data.map(...).filter(Boolean): the names that are not ""
NamesOfData(data) ==
    SelectSeq([i \in DOMAIN data |-> EntryName(data[i])], LAMBDA n : n # <<>>)

\* getRubricNamesFromUser(text): [] for blank text, for text that is not
\* JSON and for JSON that is not an array
getRubricNamesFromUser(text) ==
    IF Trim(text) = <<>> THEN <<>>
    ELSE IF IsArray(JsonParse(Trim(text))) THEN NamesOfData(JsonParse(Trim(text)).v)
    ELSE <<>>

RECURSIVE JoinTexts(_, _)
\* parts.join(sep)
JoinTexts(parts, sep) ==
    IF parts = <<>> THEN <<>>
    ELSE IF Len(parts) = 1 THEN parts[1]
    ELSE parts[1] \o sep \o JoinTexts(Tail(parts), sep)

\* buildRubricField(rawText): undefined for blank text, the names joined by
\* ", " when the text yields names, else the trimmed text
buildRubricField(rawText) ==
    IF Trim(rawText) = <<>> THEN Undef
    ELSE IF Len(getRubricNamesFromUser(Trim(rawText))) > 0
    THEN Str(JoinTexts(getRubricNamesFromUser(Trim(rawText)), <<",", " ">>))
    ELSE Str(Trim(rawText))

----------------------------------------------------------------------------
(* Calls of getRubricNamesFromUser and buildRubricField on the rubric text a *)
(* reviewer types: a JSON array of names and objects, or free text.          *)

MaxNames == 2

\* the entries of a rubric list as written
RubricEntryTexts ==
    {<<Quote, "A", Quote>>, <<Quote, "B", Quote>>, <<Quote, Quote>>, <<Quote, " ", Quote>>,
     <<"n", "u", "l", "l">>, <<"5">>,
     <<"{", Quote, "n", "a", "m", "e", Quote, ":", Quote, "C", Quote, "}">>,
     <<"{", Quote, "w", Quote, ":", "2", "}">>}

ArrayText(entries) == <<"[">> \o JoinTexts(entries, <<",">>) \o <<"]">>

RubricTexts ==
    {ArrayText(es) : es \in SeqsUpTo(RubricEntryTexts, MaxNames)}
        \cup {<<>>, <<" ">>,
              <<"A", ",", " ", "B">>,
              <<"[", Quote, "A">>,
              <<" ", "[", " ", Quote, Quote, " ", ",", " ", Quote, "B", Quote, " ", "]", " ">>,
              <<"{", Quote, "n", "a", "m", "e", Quote, ":", Quote, "A", Quote, "}">>}

InitRubricNames ==
    /\ call \in {[fn |-> f, text |-> t] :
                    f \in {"getRubricNamesFromUser", "buildRubricField"}, t \in RubricTexts}
    /\ ret = Pending
    /\ InitSingleState
    /\ InitBatchState

CallGetRubricNamesFromUser ==
    /\ call.fn = "getRubricNamesFromUser"
    /\ ret = Pending
    /\ ret' = Arr([i \in DOMAIN getRubricNamesFromUser(call.text) |->
                      Str(getRubricNamesFromUser(call.text)[i])])
    /\ UNCHANGED <<call, singleVars, batchVars>>

CallBuildRubricField ==
    /\ call.fn = "buildRubricField"
    /\ ret = Pending
    /\ ret' = buildRubricField(call.text)
    /\ UNCHANGED <<call, singleVars, batchVars>>

NextRubricNames == CallGetRubricNamesFromUser \/ CallBuildRubricField

SpecRubricNames == InitRubricNames /\ [][NextRubricNames]_vars

\* the names of a returned list, as normItem receives them
ReturnedNames(names) == [i \in DOMAIN names.v |-> names.v[i].v]

\* C20: reviewer-supplied names are position-aligned: the reviewer candidate
\* for rubric item i is the name at position i of the reviewer's rubric list
\* as written; an entry that yields no name (an empty string, an object
\* without a name alias, a value that is not a string) leaves that position
\* without a candidate and does not shift later names onto earlier indices.
C20_NamesPositionAligned ==
    (/\ call.fn = "getRubricNamesFromUser"
     /\ ret # Pending
     /\ IsArray(JsonParse(Trim(call.text)))) =>
        \A i \in DOMAIN JsonParse(Trim(call.text)).v :
            UserName(ReturnedNames(ret), i - 1) = Trim(EntryName(JsonParse(Trim(call.text)).v[i]))

----------------------------------------------------------------------------
(* The weights of canonical criteria *)

\* every criterion of the rows has a weight that is a number greater than 0
AllWeightsPositive(rows) ==
    \A i \in DOMAIN rows : IsFinite(Get(rows[i], "weight")) /\ Get(rows[i], "weight").v > 0

\* the criteria of item idx of a canonical batch result, none without a result
ItemCriteria(res, idx) ==
    IF IsObj(Get(Get(res, "items").v[idx], "result"))
    THEN ScoresOf(Get(Get(res, "items").v[idx], "result"))
    ELSE <<>>

\* C21: every criterion of every canonical result that normalizeGradeResponse
\* or normalizeBatchResponse produces has a weight greater than 0, whatever
\* per-item weight and weights_used entry the raw payload carries (0, a
\* negative number, null or the empty string included).
C21_CanonicalWeightPositive ==
    /\ (call.fn = "normalizeGradeResponse" /\ ret # Pending /\ ret # Threw) =>
            AllWeightsPositive(ScoresOf(ret))
    /\ (call.fn = "normalizeBatchResponse" /\ ret # Pending /\ ret # Threw) =>
            \A idx \in DOMAIN Get(ret, "items").v : AllWeightsPositive(ItemCriteria(ret, idx))

----------------------------------------------------------------------------
(* The review buffer at the moment of Apply *)

\* C22: in both cards, whenever Apply executes, the review buffer was copied
\* from the result held at that moment for that submission: its criteria are,
\* place by place, the held result's criteria with their names and weights;
\* a grading response that replaces the snapshot while a review is open
\* never has criteria of the previous snapshot written into the new one.
C22_BufferFromHeldResult ==
    [][/\ (result' # result /\ ApplyManualReview) =>
              SameNamesAndWeights(ScoresOf(result), editedRubricScores)
       /\ (/\ editingItemId # Null
           /\ editingItemId' = Null
           /\ batchResult' # batchResult
           /\ ApplyReviewForItem) =>
              SameNamesAndWeights(HeldItemRows(batchResult, editingItemId),
                                  batchEditedRubricScores)]_vars

----------------------------------------------------------------------------
(* What a saved batch review changes *)

BatchFrameFields ==
    <<"count", "success_count", "fail_count", "rubric_used", "weights_used",
      "reference_answer", "reference_answer_generated">>

\* the snapshot `after` differs from `before` in the item at row and in the
\* summary at most
OnlyRowChanged(before, after, row) ==
    /\ Len(Get(after, "items").v) = Len(Get(before, "items").v)
    /\ \A idx \in DOMAIN Get(before, "items").v :
          idx # row => Get(after, "items").v[idx] = Get(before, "items").v[idx]
    /\ \A i \in DOMAIN BatchFrameFields :
          Get(after, BatchFrameFields[i]) = Get(before, BatchFrameFields[i])

\* C23: applyReviewForItem changes only the batch item on whose row Review
\* was begun, and the summary: every other item and count, success_count,
\* fail_count, rubric_used, weights_used, reference_answer and
\* reference_answer_generated stay as they were, also when several items
\* share one id.
C23_ApplyChangesReviewedRowOnly ==
    [][(/\ editingItemId # Null
        /\ editingItemId' = Null
        /\ batchResult' # batchResult
        /\ ApplyReviewForItem) => OnlyRowChanged(batchResult, batchResult', reviewRow)]_vars

----------------------------------------------------------------------------
(* Grading requests in flight *)

\* C24: in each mode at most one grading request is in flight at any time:
\* the mode's grading flag is true exactly while a request is in flight,
\* from its start until it completes or fails, and while the flag is true
\* the Start Grading button is disabled (Confirm & Re-grade is disabled by
\* the same flag), so no second request starts.
C24_OneRequestInFlight ==
    /\ Cardinality(inflight) <= 1
    /\ grading <=> inflight # {}
    /\ grading => ~canSubmitSingle
    /\ Cardinality(batchInflight) <= 1
    /\ batchGrading <=> batchInflight # {}
    /\ batchGrading => ~canSubmitBatch

\* a re-grade is in flight in the single card, both files still chosen and
\* the held result on display
C24_Witness ==
    /\ activeTab = "single"
    /\ grading
    /\ \E req \in inflight : req.kind = "regrade"
    /\ questionFile /\ studentFile
    /\ result # Null

----------------------------------------------------------------------------
(* The chosen submissions *)

\* C25: after any sequence of student-file selections and clears, the ZIP
\* and the file list are never both non-empty: a single ZIP empties the
\* list, files without a ZIP drop the ZIP, and a selection that mixes a ZIP
\* with another file is rejected, so the kept ZIP is a ZIP and no file of
\* the list is one.
C25_ZipOrFilesNotBoth ==
    /\ ~(batchZipFile # Null /\ batchStudentFiles # <<>>)
    /\ batchZipFile # Null => IsZipName(batchZipFile.v)
    /\ \A i \in DOMAIN batchStudentFiles : ~IsZipName(batchStudentFiles[i])

\* a ZIP is the chosen submission and a batch graded from it is on display
C25_Witness ==
    /\ batchZipFile # Null
    /\ batchStudentFiles = <<>>
    /\ batchResult # Null

----------------------------------------------------------------------------
(* The displayed pass rate and the entered threshold *)

\* C26: whenever the batch snapshot carries a locally recomputed summary, its
\* pass_rate is the pass rate of the snapshot's current qualifying scores
\* under the pass threshold currently entered, the one displayed beside it:
\* changing the threshold after a review was applied never leaves a
\* pass_rate computed for another threshold.
C26_PassRateForEnteredThreshold ==
    (summaryRecomputed /\ batchResult # Null) =>
        Get(Get(batchResult, "summary"), "pass_rate")
            = Get(recomputeBatchSummary(Get(batchResult, "items").v, batchPassThreshold),
                  "pass_rate")

----------------------------------------------------------------------------
(* Calls of recomputeBatchSummary on batches that mix scores a backend sent  *)
(* unrounded (80.04, 85.55) with one-decimal scores a saved review wrote.    *)

MaxMixed == 3

MixedScores == {8004, 8555, 7000, 9010, 8560}

MixedBatches ==
    {[i \in DOMAIN scs |->
        Obj(<< <<"id", Str(NatToString(i))>>, <<"file", Str(<<>>)>>, <<"ok", Bool(TRUE)>>,
               <<"result", Obj(<< <<"overall_score", Num(scs[i])>>,
                                  <<"weighted_overall", Undef>>,
                                  <<"feedback", Str(<<>>)>>,
                                  <<"rubric_scores", Undef>> >>)>>,
               <<"error", Null>> >>)] :
        scs \in SeqsUpTo(MixedScores, MaxMixed)}

InitSummaryMixed ==
    /\ call \in {[fn |-> "recomputeBatchSummary", items |-> items, passThreshold |-> th] :
                    items \in MixedBatches, th \in {<<"6", "0">>}}
    /\ ret = Pending
    /\ InitSingleState
    /\ InitBatchState

SpecSummaryMixed == InitSummaryMixed /\ [][NextSummary]_vars

====
